---- MODULE Spec2Model ----
(***************************************************************************)
(* The APU orchestrator (tetanes-core/src/apu.rs) and its frame counter    *)
(* (tetanes-core/src/apu/frame_counter.rs) as a state machine.             *)
(*                                                                         *)
(* apu  is the Apu driven by clock_lazy (the program).                     *)
(* ref  is a second Apu that receives the same calls but catches up on     *)
(*      every cycle (clock_to(c) for every c); it is the reference of the  *)
(*      lazy-clocking equivalence.                                         *)
(* last is the call that produced the current state, with what the call    *)
(*      returned or observed.                                              *)
(* ops  counts the register accesses, resets and region changes made.      *)
(* pend follows the last $4017 write: when it was made, its delay, the     *)
(*      frame counter as it would run without the write, and when and how  *)
(*      the write took effect.                                             *)
(***************************************************************************)
EXTENDS Integers, Sequences, FiniteSets, TLC

VARIABLES apu, ref, last, ops, pend, emu

vars == <<apu, ref, last, ops, pend, emu>>

(***************************************************************************)
(* Bounds of the model.                                                    *)
(***************************************************************************)
\* Register accesses, resets and region changes in one run.
MaxOps == 2
\* The run ends when cpu_cycle reaches MaxCpuCycle.
MaxCpuCycle == 30200
\* A stretch of cycles in which clock_lazy does nothing but count is taken in
\* one transition that ends MaxLead cycles before the next cycle at which
\* clock_lazy catches up.
MaxLead == 4
MaxEqOps == 2
MaxRegionOps == 3
MaxRegionCycle == 8320
MaxRegOps == 3
MaxRegCycle == 5
MaxIrqOps == 6
MaxSeqOps == 2
MaxSeqCycle == 83200
\* The chunks of channel_outputs that are kept, of the CYCLE_SIZE of a batch.
MaxChunks == 2
MaxLevelOps == 2
MaxMixOps == 4
MaxChannelOps == 2
MaxSaveOps == 5
MaxPairOps == 2
MaxPairCycle == 12
MaxEnvelopeOps == 2
MaxDecayClocks == 100
MaxResampleCycles == 130
MaxPushCalls == 2056
MaxRewindOps == 3
MaxRewindLead == 3
MaxFrames == 6
MaxEventOps == 4

(***************************************************************************)
(* Program constants.                                                      *)
(***************************************************************************)
CYCLE_SIZE == 10000

None == -1

Regions == {"Ntsc", "Pal", "Dendy"}

STEP_CYCLES_NTSC ==
    << <<7457, 14913, 22371, 29828, 29829, 29830>>,
       <<7457, 14913, 22371, 29829, 37281, 37282>> >>

STEP_CYCLES_PAL ==
    << <<8313, 16627, 24939, 33252, 33253, 33254>>,
       <<8313, 16627, 24939, 33253, 41565, 41566>> >>

\* The table with the second half clock one step early.
FrameTypeHalfAtStep3 == <<"Quarter", "Half", "Quarter", "Half", "None", "None">>

FRAME_TYPE == <<"Quarter", "Half", "Quarter", "None", "Half", "None">>

\* `self.mode as usize`, as an index of the 1-based tables.
ModeIndex(mode) == IF mode = "Step4" THEN 1 ELSE 2

\* Bit b of the byte val.
Bit(val, b) == (val \div (2 ^ b)) % 2 = 1

(***************************************************************************)
(* FrameCounter                                                            *)
(***************************************************************************)
step_cycles(region) ==
    IF region = "Pal" THEN STEP_CYCLES_PAL ELSE STEP_CYCLES_NTSC

FrameCounter_new(region) ==
    [ region        |-> region,
      step_cycles   |-> step_cycles(region),
      step          |-> 0,
      mode          |-> "Step4",
      write_buffer  |-> None,
      write_delay   |-> 0,
      block_counter |-> 0,
      cycle         |-> 0,
      irq_pending   |-> FALSE,
      inhibit_irq   |-> FALSE ]

\* A region change that leaves the table installed.
set_region_keeping_table(fc, region) == [fc EXCEPT !.region = region]

FrameCounter_set_region(fc, region) ==
    [fc EXCEPT !.region = region, !.step_cycles = step_cycles(region)]

\* The delay of a $4017 write made at `cycle`.
WriteDelay(cycle) == IF cycle % 2 = 1 THEN 4 ELSE 3

\* A write that leaves the pending IRQ to the write delay.
FrameCounter_write_keeping_irq(fc, val, cycle) ==
    [fc EXCEPT !.write_buffer = val,
               !.write_delay  = WriteDelay(cycle),
               !.inhibit_irq  = Bit(val, 6)]

\* A write that leaves the delay of a pending write running.
FrameCounter_write_keeping_delay(fc, val, cycle) ==
    [fc EXCEPT !.write_buffer = val,
               !.write_delay  = IF fc.write_buffer # None THEN @
                                ELSE WriteDelay(cycle),
               !.inhibit_irq  = Bit(val, 6),
               !.irq_pending  = IF Bit(val, 6) THEN FALSE ELSE @]

FrameCounter_write(fc, val, cycle) ==
    [fc EXCEPT !.write_buffer = val,
               !.write_delay  = WriteDelay(cycle),
               !.inhibit_irq  = Bit(val, 6),
               !.irq_pending  = IF Bit(val, 6) THEN FALSE ELSE @]

\* A should_clock that asks for the catch-up one cycle late.
should_clock_late(fc, cycles) ==
    \/ fc.write_buffer # None
    \/ fc.block_counter > 0
    \/ fc.cycle + cycles >= fc.step_cycles[ModeIndex(fc.mode)][fc.step + 1] + 1

FrameCounter_should_clock(fc, cycles) ==
    \/ fc.write_buffer # None
    \/ fc.block_counter > 0
    \/ fc.cycle + cycles >= fc.step_cycles[ModeIndex(fc.mode)][fc.step + 1] - 1

\* The IRQ condition without the mode.
RaisesIrqAnyMode(fc) == ~fc.inhibit_irq /\ fc.step >= 3

\* Whether crossing the threshold of the current step raises the frame IRQ.
RaisesIrq(fc) == ~fc.inhibit_irq /\ fc.mode = "Step4" /\ fc.step >= 3

\* The mode a pending $4017 write of val selects.
WrittenMode(val) == IF Bit(val, 7) THEN "Step5" ELSE "Step4"

\* The write clocks the channels whatever the mode it selects.
WriteClocksAlways(mode, block_counter) == block_counter = 0

\* Whether a $4017 write that takes effect with `mode` clocks a half frame.
WriteClocks(mode, block_counter) == mode = "Step5" /\ block_counter = 0

\* The step threshold crossed without opening the block window.
clock_step_unblocking(fc, cycle) ==
    LET threshold == fc.step_cycles[ModeIndex(fc.mode)][fc.step + 1]
        crossing  == fc.cycle + cycle >= threshold
        ty        == FRAME_TYPE[fc.step + 1]
        fire      == ty # "None" /\ fc.block_counter = 0
        cycles    == IF threshold >= fc.cycle THEN threshold - fc.cycle ELSE 0
    IN  IF crossing
        THEN [ fc     |-> [fc EXCEPT
                             !.irq_pending   = IF RaisesIrq(fc) THEN TRUE ELSE @,
                             !.step          = IF fc.step + 1 = 6 THEN 0 ELSE fc.step + 1,
                             !.cycle         = IF fc.step + 1 = 6 THEN 0 ELSE @ + cycles],
               cycles |-> cycles,
               rem    |-> cycle - cycles,
               clocks |-> IF fire THEN <<ty>> ELSE <<>> ]
        ELSE [ fc     |-> [fc EXCEPT !.cycle = @ + cycle],
               cycles |-> cycle,
               rem    |-> 0,
               clocks |-> <<>> ]

\* clock_to_with, first part (the step threshold): the frame counter after
\* it, the cycles consumed (the return value), what is left in *cycle, and the
\* frame types handed to on_clock so far.
clock_step(fc, cycle) ==
    LET threshold == fc.step_cycles[ModeIndex(fc.mode)][fc.step + 1]
        crossing  == fc.cycle + cycle >= threshold
        ty        == FRAME_TYPE[fc.step + 1]
        fire      == ty # "None" /\ fc.block_counter = 0
        cycles    == IF threshold >= fc.cycle THEN threshold - fc.cycle ELSE 0
    IN  IF crossing
        THEN [ fc     |-> [fc EXCEPT
                             !.irq_pending   = IF RaisesIrq(fc) THEN TRUE ELSE @,
                             !.block_counter = IF fire THEN 2 ELSE @,
                             !.step          = IF fc.step + 1 = 6 THEN 0 ELSE fc.step + 1,
                             !.cycle         = IF fc.step + 1 = 6 THEN 0 ELSE @ + cycles],
               cycles |-> cycles,
               rem    |-> cycle - cycles,
               clocks |-> IF fire THEN <<ty>> ELSE <<>> ]
        ELSE [ fc     |-> [fc EXCEPT !.cycle = @ + cycle],
               cycles |-> cycle,
               rem    |-> 0,
               clocks |-> <<>> ]

\* The pending write applied by the call that finds the delay at 0.
clock_write_after_zero(r) ==
    LET delay   == (r.fc.write_delay + 255) % 256
        mode    == WrittenMode(r.fc.write_buffer)
        fire    == WriteClocks(mode, r.fc.block_counter)
    IN  IF r.fc.write_buffer = None THEN r
        ELSE IF r.fc.write_delay # 0 THEN [r EXCEPT !.fc.write_delay = delay]
        ELSE [r EXCEPT
                !.fc.mode          = mode,
                !.fc.step          = 0,
                !.fc.cycle         = 0,
                !.fc.write_buffer  = None,
                !.fc.block_counter = IF fire THEN 2 ELSE @,
                !.clocks           = IF fire THEN Append(@, "Half") ELSE @]

\* clock_to_with, second part (the pending $4017 write).  write_delay is a u8.
clock_write(r) ==
    LET delay   == (r.fc.write_delay + 255) % 256
        mode    == WrittenMode(r.fc.write_buffer)
        fire    == WriteClocks(mode, r.fc.block_counter)
    IN  IF r.fc.write_buffer = None THEN r
        ELSE IF delay # 0 THEN [r EXCEPT !.fc.write_delay = delay]
        ELSE [r EXCEPT
                !.fc.write_delay   = delay,
                !.fc.mode          = mode,
                !.fc.step          = 0,
                !.fc.cycle         = 0,
                !.fc.write_buffer  = None,
                !.fc.block_counter = IF fire THEN 2 ELSE @,
                !.clocks           = IF fire THEN Append(@, "Half") ELSE @]

\* The block window closed at the end of the call that opened it.
clock_block_closing(r) ==
    [r EXCEPT !.fc.block_counter = 0]

\* clock_to_with, last part (the block window).
clock_block(r) ==
    [r EXCEPT !.fc.block_counter = IF @ > 0 THEN @ - 1 ELSE @]

\* clock_to_with(&mut cycle, on_clock).
FrameCounter_clock_to_with(fc, cycle) ==
    clock_block(clock_write(clock_step(fc, cycle)))

\* A reset that sets Step4 whatever its kind.
FrameCounter_reset_to_step4(fc, kind) ==
    [fc EXCEPT
       !.mode          = "Step4",
       !.step          = 0,
       !.write_buffer  = 0,
       !.write_delay   = 3,
       !.block_counter = 0,
       !.cycle         = 0,
       !.irq_pending   = FALSE,
       !.inhibit_irq   = FALSE]

FrameCounter_reset(fc, kind) ==
    LET mode == IF kind = "Hard" THEN "Step4" ELSE fc.mode
    IN  [fc EXCEPT
           !.mode          = mode,
           !.step          = 0,
           !.write_buffer  = IF mode = "Step4" THEN 0 ELSE 128,
           !.write_delay   = 3,
           !.block_counter = 0,
           !.cycle         = 0,
           !.irq_pending   = FALSE,
           !.inhibit_irq   = FALSE]

(***************************************************************************)
(* LengthCounter.  Its source file is not among the repository's files at  *)
(* hand; the definitions follow the specification's section 4.3.           *)
(***************************************************************************)
LENGTH_TABLE ==
    << 10, 254, 20,  2, 40,  4, 80,  6, 160,  8, 60, 10, 14, 12, 26, 14,
       12,  16, 24, 18, 48, 20, 96, 22, 192, 24, 72, 26, 16, 28, 32, 30 >>

LengthCounter_new ==
    [ enabled |-> FALSE, counter |-> 0, reload_value |-> 0 ]

\* A length load: latched, and applied by the next reload().
LengthCounter_write(lc, val) ==
    IF lc.enabled
    THEN [lc EXCEPT !.reload_value = LENGTH_TABLE[(val \div 8) + 1]]
    ELSE lc

LengthCounter_set_enabled(lc, enabled) ==
    [lc EXCEPT !.enabled = enabled,
               !.counter = IF enabled THEN @ ELSE 0]

LengthCounter_reload(lc) ==
    IF lc.reload_value > 0
    THEN [lc EXCEPT !.counter = lc.reload_value, !.reload_value = 0]
    ELSE lc

LengthCounter_clock(lc) ==
    IF lc.enabled /\ lc.counter > 0
    THEN [lc EXCEPT !.counter = @ - 1]
    ELSE lc

(***************************************************************************)
(* Dmc.  Its source file is not among the repository's files at hand; the  *)
(* definitions follow the specification's section 4.5.                     *)
(***************************************************************************)
Dmc_new ==
    [ irq_enabled     |-> FALSE,
      loops           |-> FALSE,
      irq_pending     |-> FALSE,
      sample_length   |-> 0,
      bytes_remaining |-> 0 ]

Dmc_write_timer(dmc, val) ==
    [dmc EXCEPT !.irq_enabled = Bit(val, 7),
                !.loops       = Bit(val, 6),
                !.irq_pending = IF Bit(val, 7) THEN @ ELSE FALSE]

Dmc_write_length(dmc, val) ==
    [dmc EXCEPT !.sample_length = val * 16 + 1]

Dmc_set_enabled(dmc, enabled) ==
    IF ~enabled THEN [dmc EXCEPT !.bytes_remaining = 0]
    ELSE IF dmc.bytes_remaining = 0
    THEN [dmc EXCEPT !.bytes_remaining = dmc.sample_length]
    ELSE dmc

\* A sample byte fetched by DMA: playback completes with the last byte.
Dmc_load_buffer(dmc) ==
    IF dmc.bytes_remaining = 0 THEN dmc
    ELSE IF dmc.bytes_remaining > 1
    THEN [dmc EXCEPT !.bytes_remaining = @ - 1]
    ELSE IF dmc.loops
    THEN [dmc EXCEPT !.bytes_remaining = dmc.sample_length]
    ELSE [dmc EXCEPT !.bytes_remaining = 0,
                     !.irq_pending     = IF dmc.irq_enabled THEN TRUE ELSE @]

(***************************************************************************)
(* Apu.  A channel is modelled by the part of it the orchestrator reads:   *)
(* its length counter.                                                     *)
(***************************************************************************)
SAMPLE_RATE == 44100
MAX_CHANNEL_COUNT == 6
PULSE_TABLE_LEN == 31
TND_TABLE_LEN == 203

\* `channel as usize`, as an index of the 1-based chunks.
ChannelIndex(channel) ==
    CASE channel = "Pulse1"   -> 1
      [] channel = "Pulse2"   -> 2
      [] channel = "Triangle" -> 3
      [] channel = "Noise"    -> 4
      [] channel = "Dmc"      -> 5
      [] channel = "Mapper"   -> 6

\* Cpu::region_clock_rate, in whole cycles per second.  Its source file is
\* not among the repository's files at hand.
region_clock_rate(region) ==
    CASE region = "Ntsc"  -> 1789773
      [] region = "Pal"   -> 1662607
      [] region = "Dendy" -> 1773448

\* One cycle's chunk of channel_outputs, all channels at 0.
Silence == [i \in 1..MAX_CHANNEL_COUNT |-> 0]

Channels == {"Pulse1", "Pulse2", "Triangle", "Noise", "Dmc", "Mapper"}

Channel_new == [ length |-> LengthCounter_new ]

Apu_new ==
    [ frame_counter |-> FrameCounter_new("Ntsc"),
      master_cycle  |-> 0,
      cpu_cycle     |-> 0,
      cycle         |-> 0,
      region        |-> "Ntsc",
      pulse1        |-> Channel_new,
      pulse2        |-> Channel_new,
      triangle      |-> Channel_new,
      noise         |-> Channel_new,
      dmc           |-> Dmc_new,
      \* The chunks of the first MaxChunks cycles of the batch.
      channel_outputs |-> [i \in 1..MaxChunks |-> Silence],
      output_cycle    |-> 0,
      \* Each sample is kept as the number of samples the filter chain had
      \* taken from the batch when it was pushed.
      audio_samples   |-> <<>>,
      \* In units of 1 / SAMPLE_RATE of a cycle.
      sample_period   |-> region_clock_rate("Ntsc"),
      sample_counter  |-> region_clock_rate("Ntsc"),
      mapper_silenced |-> TRUE,
      skip_mixing     |-> FALSE,
      should_clock  |-> FALSE,
      \* The call in progress ended in a panic (an arithmetic overflow or an
      \* unreachable match arm): the program has stopped.
      fault         |-> FALSE,
      \* History: the on_clock callbacks delivered so far, the CPU cycle of
      \* the last one, and the per-cycle channel gates written to
      \* channel_outputs, summed.
      quarters      |-> 0,
      halves        |-> 0,
      last_clock_at |-> 0,
      out_sum       |-> 0,
      \* The samples the last process_outputs gave to the filter chain.
      filter_in     |-> <<>> ]

\* The closure clock_to hands to clock_to_with.
on_clock(a, ty) ==
    IF ty = "Quarter" THEN [a EXCEPT !.quarters = @ + 1]
    ELSE IF ty = "Half"
    THEN [a EXCEPT !.halves = @ + 1,
                   !.pulse1.length   = LengthCounter_clock(@),
                   !.pulse2.length   = LengthCounter_clock(@),
                   !.triangle.length = LengthCounter_clock(@),
                   !.noise.length    = LengthCounter_clock(@)]
    ELSE a

RECURSIVE on_clocks(_, _)
on_clocks(a, clocks) ==
    IF clocks = <<>> THEN a
    ELSE on_clocks(on_clock(a, Head(clocks)), Tail(clocks))

reload_lengths(a) ==
    [a EXCEPT !.pulse1.length   = LengthCounter_reload(@),
              !.pulse2.length   = LengthCounter_reload(@),
              !.triangle.length = LengthCounter_reload(@),
              !.noise.length    = LengthCounter_reload(@)]

\* What the four length-gated channels write for one cycle: a channel whose
\* length counter is zero is silent.
Gates(a) ==
      (IF a.pulse1.length.counter   > 0 THEN 1 ELSE 0)
    + (IF a.pulse2.length.counter   > 0 THEN 2 ELSE 0)
    + (IF a.triangle.length.counter > 0 THEN 4 ELSE 0)
    + (IF a.noise.length.counter    > 0 THEN 8 ELSE 0)

\* clock_to_output of every channel, up to self.cycle, over `cycles` cycles.
clock_to_output(a, cycles) ==
    [a EXCEPT !.out_sum = @ + cycles * Gates(a)]

\* The frame counter's part of one pass of the loop of clock_to.
clock_to_frame(a, r) ==
    [ apu    |-> [a EXCEPT !.frame_counter = r.fc, !.cycle = @ + r.cycles],
      clocks |-> r.clocks, cycles |-> r.cycles, rem |-> r.rem ]

\* The callbacks of one pass, stamped with the CPU cycle they fall on.
clock_to_callbacks(s) ==
    IF s.clocks = <<>> THEN s
    ELSE [s EXCEPT !.apu =
            [on_clocks(s.apu, s.clocks) EXCEPT
               !.last_clock_at = s.apu.cpu_cycle - (s.apu.master_cycle - s.apu.cycle)]]

\* The reloads and the channel outputs of one pass.
clock_to_channels(s) ==
    [s EXCEPT !.apu = clock_to_output(reload_lengths(s.apu), s.cycles)]

\* One pass with the reloads ahead of the frame counter's callbacks.
clock_to_step_reload_first(a, cycles) ==
    clock_to_channels(clock_to_callbacks(
        clock_to_frame(reload_lengths(a),
                       FrameCounter_clock_to_with(a.frame_counter, cycles))))

\* One pass of the loop of clock_to.
clock_to_step(a, cycles) ==
    clock_to_channels(clock_to_callbacks(
        clock_to_frame(a, FrameCounter_clock_to_with(a.frame_counter, cycles))))

RECURSIVE clock_to_loop(_, _)
clock_to_next(s) == clock_to_loop(s.apu, s.rem)

clock_to_loop(a, cycles) ==
    IF cycles > 0 THEN clock_to_next(clock_to_step(a, cycles)) ELSE a

\* master_cycle - cycle is a subtraction of usize: it overflows when cycle is
\* ahead of master_cycle.
clock_to_run(a) ==
    IF a.master_cycle < a.cycle
    THEN [a EXCEPT !.fault = TRUE]
    ELSE clock_to_loop(a, a.master_cycle - a.cycle)

Apu_clock_to(a, cycle) == clock_to_run([a EXCEPT !.master_cycle = cycle])

\* What the DMC asks of should_clock in one call.
DmcRequests(a) ==
    IF a.dmc.bytes_remaining > 0
    THEN {"none", "should_clock", "irq_pending_in"}
    ELSE {"none"}

\* should_clock(): its result, and the Apu it leaves.
Apu_should_clock(a, dmc_req) ==
    IF dmc_req = "should_clock" \/ a.should_clock
    THEN [ clock |-> TRUE, apu |-> [a EXCEPT !.should_clock = FALSE] ]
    ELSE IF a.master_cycle < a.cycle
    THEN [ clock |-> FALSE, apu |-> [a EXCEPT !.fault = TRUE] ]
    ELSE [ clock |-> \/ FrameCounter_should_clock(a.frame_counter,
                                                  a.master_cycle - a.cycle)
                     \/ dmc_req = "irq_pending_in",
           apu   |-> a ]

(***************************************************************************)
(* The mixer.  A sample is kept as the two table indices and the mapper's  *)
(* share: PULSE_TABLE[pulse_idx] + TND_TABLE[tnd_idx] + mapper_output.     *)
(***************************************************************************)
\* The chunk of master_cycle is the one written; the chunks kept are the
\* first MaxChunks.
Apu_add_output(a, output) ==
    IF Len(a.channel_outputs) = 0 THEN [a EXCEPT !.fault = TRUE]
    ELSE IF a.master_cycle < MaxChunks
    THEN [a EXCEPT !.channel_outputs[a.master_cycle + 1][ChannelIndex("Mapper")] = output]
    ELSE a

Apu_set_channel_enabled(a, channel, enabled) ==
    IF channel = "Mapper" THEN [a EXCEPT !.mapper_silenced = ~enabled] ELSE a

PulseIndex(outputs) ==
    outputs[ChannelIndex("Pulse1")] + outputs[ChannelIndex("Pulse2")]

\* The index with the triangle's weight given to the noise as well.
TndIndexEqualWeights(outputs) ==
    3 * outputs[ChannelIndex("Triangle")] + 3 * outputs[ChannelIndex("Noise")]
        + outputs[ChannelIndex("Dmc")]

TndIndex(outputs) ==
    3 * outputs[ChannelIndex("Triangle")] + 2 * outputs[ChannelIndex("Noise")]
        + outputs[ChannelIndex("Dmc")]

\* A sample emitted once the counter has dropped to 0.
resample_due_at_zero(a, counter) ==
    IF counter <= 0
    THEN [a EXCEPT !.audio_samples  = Append(@, Len(a.filter_in)),
                   !.sample_counter = counter + a.sample_period]
    ELSE [a EXCEPT !.sample_counter = counter]

\* The output sample due after the sample just given to the filter chain.
resample_due(a, counter) ==
    IF counter <= SAMPLE_RATE
    THEN [a EXCEPT !.audio_samples  = Append(@, Len(a.filter_in)),
                   !.sample_counter = counter + a.sample_period]
    ELSE [a EXCEPT !.sample_counter = counter]

\* self.sample_counter -= 1.0, and what follows.
resample(a) ==
    IF a.fault THEN a ELSE resample_due(a, a.sample_counter - SAMPLE_RATE)

\* A mapper sample that reaches the output whatever mapper_silenced is.
MapperOutputAlways(outputs, mapper_silenced) == outputs[ChannelIndex("Mapper")]

MapperOutput(outputs, mapper_silenced) ==
    IF mapper_silenced THEN 0 ELSE outputs[ChannelIndex("Mapper")]

\* The body of the loop of process_outputs; an index past the end of a table
\* is a panic.
mix_chunk(a, outputs) ==
    IF PulseIndex(outputs) >= PULSE_TABLE_LEN \/ TndIndex(outputs) >= TND_TABLE_LEN
    THEN [a EXCEPT !.fault = TRUE]
    ELSE [a EXCEPT !.filter_in =
            Append(@, [ pulse_idx     |-> PulseIndex(outputs),
                        tnd_idx       |-> TndIndex(outputs),
                        mapper_output |-> MapperOutput(outputs, a.mapper_silenced) ])]

RECURSIVE mix_chunks(_, _)
\* chunks_exact(MAX_CHANNEL_COUNT).take(self.cycle), from chunk i on.
mix_chunks(a, i) ==
    IF a.fault \/ i > a.cycle \/ i > Len(a.channel_outputs) THEN a
    ELSE mix_chunks(resample(mix_chunk(a, a.channel_outputs[i])), i + 1)

Apu_process_outputs(a) ==
    IF a.fault \/ a.skip_mixing THEN a
    ELSE mix_chunks([a EXCEPT !.filter_in = <<>>], 1)

\* A flush that leaves master_cycle where the batch ended.
flush_reset_keeping_master_cycle(b) ==
    IF b.fault THEN b ELSE [b EXCEPT !.cycle = 0]

\* clock_flush after its catch-up.
flush_reset(b) ==
    IF b.fault THEN b ELSE [b EXCEPT !.master_cycle = 0, !.cycle = 0]

Apu_clock_flush(a) ==
    flush_reset(Apu_process_outputs(Apu_clock_to(a, a.master_cycle)))

\* The flush once CYCLE_SIZE calls have been counted.
BatchFullAtCycleSize(master_cycle) == master_cycle = CYCLE_SIZE

\* Whether clock_lazy flushes once master_cycle is incremented to `master_cycle`.
BatchFull(master_cycle) == master_cycle = CYCLE_SIZE - 1

\* The two increments that open clock_lazy.
tick(a) == [a EXCEPT !.master_cycle = @ + 1, !.cpu_cycle = @ + 1]

\* clock_lazy after should_clock().
lazy_clock(s) ==
    IF s.apu.fault \/ ~s.clock THEN s.apu
    ELSE Apu_clock_to(s.apu, s.apu.master_cycle)

lazy_dispatch(a, dmc_req) ==
    IF BatchFull(a.master_cycle) THEN Apu_clock_flush(a)
    ELSE lazy_clock(Apu_should_clock(a, dmc_req))

Apu_clock_lazy(a, dmc_req) == lazy_dispatch(tick(a), dmc_req)

\* The reference: the same cycle, with the catch-up made unconditionally.
every_dispatch(a) ==
    IF BatchFull(a.master_cycle) THEN Apu_clock_flush(a)
    ELSE Apu_clock_to([a EXCEPT !.should_clock = FALSE], a.master_cycle)

Apu_clock_every(a) == every_dispatch(tick(a))

(***************************************************************************)
(* The register interface (impl ApuRegisters for Apu), set_region, reset.  *)
(* A handler that panics leaves fault set.                                 *)
(***************************************************************************)
\* self.clock_to(self.master_cycle), the first statement of every handler.
CatchUp(a) == Apu_clock_to(a, a.master_cycle)

Panic(a) == [a EXCEPT !.fault = TRUE]

\* A handler is its catch-up followed by its own statements, X_caught_up(b, ..),
\* which run on the caught-up Apu b unless the catch-up panicked.
write_ctrl_caught_up(b, channel, val) ==
    IF b.fault THEN b
    ELSE IF channel \notin {"Pulse1", "Pulse2", "Noise"} THEN Panic(b)
    ELSE [b EXCEPT !.should_clock = \/ b.pulse1.length.enabled
                                    \/ b.pulse2.length.enabled
                                    \/ b.noise.length.enabled]

Apu_write_ctrl(a, channel, val) == write_ctrl_caught_up(CatchUp(a), channel, val)

\* A sweep write that is ignored by the channels without the register.
write_sweep_ignoring(b, channel, val) == b

write_sweep_caught_up(b, channel, val) ==
    IF b.fault THEN b
    ELSE IF channel \notin {"Pulse1", "Pulse2"} THEN Panic(b)
    ELSE b

Apu_write_sweep(a, channel, val) == write_sweep_caught_up(CatchUp(a), channel, val)

write_timer_lo_caught_up(b, channel, val) ==
    IF b.fault THEN b
    ELSE IF channel = "Mapper" THEN Panic(b)
    ELSE IF channel = "Dmc" THEN [b EXCEPT !.dmc = Dmc_write_timer(@, val)]
    ELSE b

Apu_write_timer_lo(a, channel, val) ==
    write_timer_lo_caught_up(CatchUp(a), channel, val)

\* self.should_clock as write_timer_hi sets it.
timer_hi_should_clock(c) ==
    [c EXCEPT !.should_clock = \/ c.pulse1.length.enabled
                               \/ c.pulse2.length.enabled
                               \/ c.triangle.length.enabled]

write_timer_hi_caught_up(b, channel, val) ==
    IF b.fault THEN b
    ELSE IF channel = "Pulse1"
    THEN timer_hi_should_clock(
             [b EXCEPT !.pulse1.length = LengthCounter_write(@, val)])
    ELSE IF channel = "Pulse2"
    THEN timer_hi_should_clock(
             [b EXCEPT !.pulse2.length = LengthCounter_write(@, val)])
    ELSE IF channel = "Triangle"
    THEN timer_hi_should_clock(
             [b EXCEPT !.triangle.length = LengthCounter_write(@, val)])
    ELSE Panic(b)

Apu_write_timer_hi(a, channel, val) ==
    write_timer_hi_caught_up(CatchUp(a), channel, val)

write_linear_counter_caught_up(b, val) ==
    IF b.fault THEN b
    ELSE [b EXCEPT !.should_clock = b.triangle.length.enabled]

Apu_write_linear_counter(a, val) == write_linear_counter_caught_up(CatchUp(a), val)

\* self.should_clock as write_length sets it.
length_should_clock(c) == [c EXCEPT !.should_clock = c.noise.length.enabled]

write_length_caught_up(b, channel, val) ==
    IF b.fault THEN b
    ELSE IF channel = "Noise"
    THEN length_should_clock(
             [b EXCEPT !.noise.length = LengthCounter_write(@, val)])
    ELSE IF channel = "Dmc"
    THEN length_should_clock([b EXCEPT !.dmc = Dmc_write_length(@, val)])
    ELSE Panic(b)

Apu_write_length(a, channel, val) == write_length_caught_up(CatchUp(a), channel, val)

Apu_write_dmc_output(a, val) == CatchUp(a)

Apu_write_dmc_addr(a, val) == CatchUp(a)

\* The status byte with the DMC's activity at bit 5.
peek_status_dmc_at_bit5(a) ==
      (IF a.pulse1.length.counter   > 0 THEN 1   ELSE 0)
    + (IF a.pulse2.length.counter   > 0 THEN 2   ELSE 0)
    + (IF a.triangle.length.counter > 0 THEN 4   ELSE 0)
    + (IF a.noise.length.counter    > 0 THEN 8   ELSE 0)
    + (IF a.dmc.bytes_remaining     > 0 THEN 32  ELSE 0)
    + (IF a.frame_counter.irq_pending   THEN 64  ELSE 0)
    + (IF a.dmc.irq_pending             THEN 128 ELSE 0)

Apu_peek_status(a) ==
      (IF a.pulse1.length.counter   > 0 THEN 1   ELSE 0)
    + (IF a.pulse2.length.counter   > 0 THEN 2   ELSE 0)
    + (IF a.triangle.length.counter > 0 THEN 4   ELSE 0)
    + (IF a.noise.length.counter    > 0 THEN 8   ELSE 0)
    + (IF a.dmc.bytes_remaining     > 0 THEN 16  ELSE 0)
    + (IF a.frame_counter.irq_pending   THEN 64  ELSE 0)
    + (IF a.dmc.irq_pending             THEN 128 ELSE 0)

\* A read that leaves the frame IRQ flag alone.
AckNothing(fc) == fc

\* What read_status leaves of the frame IRQ flag.
AckFrameIrq(fc) == [fc EXCEPT !.irq_pending = FALSE]

read_status_caught_up(b) ==
    IF b.fault THEN [ apu |-> b, val |-> 0 ]
    ELSE [ apu |-> [b EXCEPT !.frame_counter = AckFrameIrq(@)],
           val |-> Apu_peek_status(b) ]

\* read_status: the Apu after the call, and the value returned.
Apu_read_status(a) == read_status_caught_up(CatchUp(a))

write_status_caught_up(b, val) ==
    IF b.fault THEN b
    ELSE [b EXCEPT
            !.pulse1.length   = LengthCounter_set_enabled(@, Bit(val, 0)),
            !.pulse2.length   = LengthCounter_set_enabled(@, Bit(val, 1)),
            !.triangle.length = LengthCounter_set_enabled(@, Bit(val, 2)),
            !.noise.length    = LengthCounter_set_enabled(@, Bit(val, 3)),
            !.dmc             = Dmc_set_enabled(@, Bit(val, 4))]

Apu_write_status(a, val) == write_status_caught_up(CatchUp(a), val)

write_frame_counter_caught_up(b, val) ==
    IF b.fault THEN b
    ELSE [b EXCEPT !.frame_counter = FrameCounter_write(@, val, b.master_cycle)]

\* A write_frame_counter that catches up after the write.
write_frame_counter_then_catch_up(a, val) ==
    CatchUp(write_frame_counter_caught_up(a, val))

Apu_write_frame_counter(a, val) == write_frame_counter_caught_up(CatchUp(a), val)

Apu_load_dmc_buffer(a, val) == [a EXCEPT !.dmc = Dmc_load_buffer(@)]

set_region_caught_up(b, region) ==
    IF b.fault THEN b
    ELSE [b EXCEPT !.region = region,
                   !.sample_period = region_clock_rate(region),
                   !.frame_counter = FrameCounter_set_region(@, region)]

Apu_set_region(a, region) ==
    IF a.region = region THEN a ELSE set_region_caught_up(CatchUp(a), region)

\* A reset that leaves the frame IRQ raised.
reset_raising_frame_irq(a, kind) ==
    [a EXCEPT !.master_cycle  = 0,
              !.should_clock  = FALSE,
              !.frame_counter = [FrameCounter_reset(@, kind) EXCEPT
                                   !.irq_pending = TRUE],
              !.pulse1        = Channel_new,
              !.pulse2        = Channel_new,
              !.triangle      = Channel_new,
              !.noise         = Channel_new,
              !.dmc           = Dmc_new]

Apu_reset(a, kind) ==
    [a EXCEPT !.master_cycle  = 0,
              !.should_clock  = FALSE,
              !.frame_counter = FrameCounter_reset(@, kind),
              !.pulse1        = Channel_new,
              !.pulse2        = Channel_new,
              !.triangle      = Channel_new,
              !.noise         = Channel_new,
              !.dmc           = Dmc_new]

(***************************************************************************)
(* Save states.  The derived Serialize writes every field of struct Apu    *)
(* but the three marked #[serde(skip)]; the derived Deserialize reads them *)
(* back and gives the skipped fields their Default.  The fields of the     *)
(* model that record history are not fields of the struct and stay.        *)
(***************************************************************************)
SkippedFields == {"channel_outputs", "output_cycle", "audio_samples"}

SerializedFields ==
    { "frame_counter", "master_cycle", "cpu_cycle", "cycle", "region",
      "pulse1", "pulse2", "triangle", "noise", "dmc",
      "sample_period", "sample_counter",
      "mapper_silenced", "skip_mixing", "should_clock" }

\* A blob that holds the audio samples as well.
serialize_with_audio_samples(a) ==
    [f \in SerializedFields \cup {"audio_samples"} |-> a[f]]

Apu_serialize(a) == [f \in SerializedFields |-> a[f]]

\* Vec::default() and usize::default().
SkippedDefault(f) == IF f = "output_cycle" THEN 0 ELSE <<>>

Apu_deserialize(a, blob) ==
    [f \in DOMAIN a |->
        IF f \in SerializedFields THEN blob[f]
        ELSE IF f \in SkippedFields THEN SkippedDefault(f)
        ELSE a[f]]

(***************************************************************************)
(* Stretches of cycles in which clock_lazy only counts.                    *)
(***************************************************************************)
Min(x, y) == IF x <= y THEN x ELSE y
Max(x, y) == IF x >= y THEN x ELSE y

Threshold(fc) == fc.step_cycles[ModeIndex(fc.mode)][fc.step + 1]

\* The number of coming clock_lazy calls that neither flush nor find
\* should_clock() true, whatever else happens: each of them only increments
\* master_cycle and cpu_cycle.
IdleCycles(a) ==
    IF \/ a.fault
       \/ a.should_clock
       \/ a.dmc.bytes_remaining > 0
       \/ a.frame_counter.write_buffer # None
       \/ a.frame_counter.block_counter > 0
       \/ a.master_cycle < a.cycle
    THEN 0
    ELSE Max(0, Min(CYCLE_SIZE - 2 - a.master_cycle,
                    Threshold(a.frame_counter) - 2 - a.frame_counter.cycle
                        - (a.master_cycle - a.cycle)))

\* The same for the reference: the number of coming cycles whose catch-up
\* only adds one cycle to the frame counter and to the channel outputs.
RefIdleCycles(a) ==
    IF \/ a.frame_counter.write_buffer # None
       \/ a.frame_counter.block_counter > 0
       \/ a.master_cycle # a.cycle
       \/ a.pulse1.length.reload_value # 0
       \/ a.pulse2.length.reload_value # 0
       \/ a.triangle.length.reload_value # 0
       \/ a.noise.length.reload_value # 0
    THEN 0
    ELSE Max(0, Min(CYCLE_SIZE - 2 - a.master_cycle,
                    Threshold(a.frame_counter) - 1 - a.frame_counter.cycle))

\* n calls of clock_lazy, n <= IdleCycles(a).
Apu_clock_lazy_idle(a, n) ==
    [a EXCEPT !.master_cycle = @ + n, !.cpu_cycle = @ + n]

\* n cycles of the reference, n <= RefIdleCycles(a).
Apu_clock_every_idle(a, n) ==
    [a EXCEPT !.master_cycle = @ + n, !.cpu_cycle = @ + n, !.cycle = @ + n,
              !.frame_counter.cycle = @ + n,
              !.should_clock = FALSE,
              !.out_sum = @ + n * Gates(a)]

\* The length of the stretch taken in one transition from the current state.
IdleRun ==
    LET n == IF ref.fault THEN IdleCycles(apu)
             ELSE Min(IdleCycles(apu), RefIdleCycles(ref))
    IN  Max(0, Min(n - MaxLead, MaxCpuCycle - apu.cpu_cycle))

(***************************************************************************)
(* Rewind (tetanes/src/nes/emulation/rewind.rs) and the part of the        *)
(* emulation State that drives it.  A Cpu snapshot is the number of the    *)
(* frame it was taken at.  frames is the Vec<Option<Frame>>: its length    *)
(* and the entries that are Some.                                          *)
(***************************************************************************)
FRAMES_SIZE == 1024
INTERVAL == 2

Rewind_new(enabled) ==
    [ enabled          |-> enabled,
      interval_counter |-> 0,
      index            |-> 0,
      count            |-> 0,
      frames           |-> [ len |-> FRAMES_SIZE, some |-> <<>> ] ]

Rewind_set_enabled(rw, enabled) == [rw EXCEPT !.enabled = enabled]

\* self.frames[i] = Some(frame).
frames_set(some, i, frame) ==
    [j \in DOMAIN some \cup {i} |-> IF j = i THEN frame ELSE some[j]]

\* self.frames[i].take() on an entry that is Some.
frames_take(some, i) == [j \in DOMAIN some \ {i} |-> some[j]]

\* push once interval_counter has reached INTERVAL: the store, and the
\* increments of count and index.  An index past the end of frames is a panic.
push_store(rw, cpu) ==
    IF rw.index >= rw.frames.len
    THEN [ rewind |-> rw, panic |-> TRUE ]
    ELSE [ rewind |->
             [rw EXCEPT !.frames.some = frames_set(@, rw.index, cpu),
                        !.count = @ + 1,
                        !.index = IF @ + 1 >= rw.frames.len THEN 0 ELSE @ + 1],
           panic |-> FALSE ]

\* push(&cpu): the Rewind after it, and whether it panicked.
Rewind_push(rw, cpu) ==
    IF ~rw.enabled THEN [ rewind |-> rw, panic |-> FALSE ]
    ELSE IF rw.interval_counter + 1 < INTERVAL
    THEN [ rewind |-> [rw EXCEPT !.interval_counter = @ + 1], panic |-> FALSE ]
    ELSE push_store([rw EXCEPT !.interval_counter = 0], cpu)

\* pop with count > 0, after `self.count -= 1`: index is a usize, so the
\* decrement from 0 panics (debug) or wraps to an index past the end of
\* frames, which panics at the access (release); so does frames.len() - 1 on
\* an empty Vec.
pop_take(rw) ==
    IF rw.index = 0 \/ (rw.index = 1 /\ rw.frames.len = 0)
    THEN [ rewind |-> rw, cpu |-> None, panic |-> TRUE ]
    ELSE LET index == IF rw.index - 1 = 0 THEN rw.frames.len - 1
                      ELSE rw.index - 1
         IN  IF index >= rw.frames.len
             THEN [ rewind |-> rw, cpu |-> None, panic |-> TRUE ]
             ELSE IF index \in DOMAIN rw.frames.some
             THEN [ rewind |-> [rw EXCEPT !.index = index,
                                          !.frames.some = frames_take(@, index)],
                    cpu    |-> rw.frames.some[index],
                    panic  |-> FALSE ]
             ELSE [ rewind |-> [rw EXCEPT !.index = index],
                    cpu    |-> None,
                    panic  |-> FALSE ]

\* pop(): the Rewind after it, the snapshot returned (None for None), and
\* whether it panicked.
Rewind_pop(rw) ==
    IF ~rw.enabled \/ rw.count = 0
    THEN [ rewind |-> rw, cpu |-> None, panic |-> FALSE ]
    ELSE pop_take([rw EXCEPT !.count = @ - 1])

Rewind_clear(rw) ==
    [rw EXCEPT !.interval_counter = 0,
               !.index = 0,
               !.count = 0,
               !.frames = [ len |-> 0, some |-> <<>> ]]

\* State: rewinding and rewind, the Cpu of the control deck (the frame it is
\* at), and whether the thread has panicked.  calls counts the calls of push
\* on an enabled Rewind, live is the stack of the snapshots stored and not
\* popped (the FRAMES_SIZE most recent), phase tells a run of pushes
\* ("storing"), followed by pops only ("popping"), from the others.
State_new(enabled) ==
    [ rewinding |-> FALSE,
      rewind    |-> Rewind_new(enabled),
      cpu       |-> 0,
      panicked  |-> FALSE,
      calls     |-> 0,
      live      |-> <<>>,
      phase     |-> "storing" ]

(***************************************************************************)
(* The state machine.                                                      *)
(***************************************************************************)
NoPend ==
    [ active |-> FALSE, at |-> 0, delay |-> 0, val |-> 0,
      shadow |-> FrameCounter_new("Ntsc"),
      applied_at |-> -1, applied |-> <<"Step4", 0, 0>> ]

\* `behind` is master_cycle - cycle when the call was made.
NoCall ==
    [ op |-> "new", arg |-> <<>>, ret |-> 0, behind |-> 0,
      prev |-> "none", prev_ret |-> 0 ]

\* The record of a register access or reset, which follows `last` on the
\* same cycle unless `last` is a clock.
Call(op, arg, ret) ==
    [ op |-> op, arg |-> arg, ret |-> ret,
      behind   |-> apu.master_cycle - apu.cycle,
      prev     |-> IF last.op \in {"new", "clock_lazy"} THEN "none" ELSE last.op,
      prev_ret |-> IF last.op \in {"new", "clock_lazy"} THEN 0 ELSE last.ret ]

Clocked(n) ==
    [ op |-> "clock_lazy", arg |-> <<n>>, ret |-> 0,
      behind |-> apu.master_cycle - apu.cycle, prev |-> "none", prev_ret |-> 0 ]

\* The reference takes the same call, unless it has stopped.
RefDo(r) == IF ref.fault THEN ref ELSE r

RECURSIVE FrameCounter_clock_loop(_, _)
frame_clock_next(r) == FrameCounter_clock_loop(r.fc, r.rem)

\* The frame counter alone through the loop of clock_to.
FrameCounter_clock_loop(fc, cycles) ==
    IF cycles > 0 THEN frame_clock_next(FrameCounter_clock_to_with(fc, cycles))
    ELSE fc

\* pend after a clock of n cycles that leads to the Apu a.
PendClocked(a, n) ==
    IF ~pend.active \/ pend.applied_at # -1 \/ a.fault THEN pend
    ELSE LET p == [pend EXCEPT !.shadow = FrameCounter_clock_loop(@, n)]
         IN  IF a.frame_counter.write_buffer = None
             THEN [p EXCEPT !.applied_at = a.cpu_cycle,
                            !.applied    = << a.frame_counter.mode,
                                              a.frame_counter.step,
                                              a.frame_counter.cycle >>]
             ELSE p

Init ==
    /\ apu  = Apu_new
    /\ ref  = Apu_new
    /\ last = NoCall
    /\ ops  = 0
    /\ pend = NoPend
    /\ emu  = State_new(TRUE)

\* One call of clock_lazy.
ClockLazy ==
    /\ ~apu.fault
    /\ \E req \in DmcRequests(apu) : apu' = Apu_clock_lazy(apu, req)
    /\ ref'  = RefDo(Apu_clock_every(ref))
    /\ last' = Clocked(1)
    /\ pend' = PendClocked(apu', 1)
    /\ UNCHANGED <<ops, emu>>

\* IdleRun calls of clock_lazy in a row.
ClockLazyIdle ==
    /\ ~apu.fault
    /\ IdleRun > 0
    /\ apu'  = Apu_clock_lazy_idle(apu, IdleRun)
    /\ ref'  = RefDo(Apu_clock_every_idle(ref, IdleRun))
    /\ last' = Clocked(IdleRun)
    /\ UNCHANGED <<ops, pend, emu>>

\* A handler that leaves the $4017 latch alone.
Access(op, arg, a, r) ==
    /\ ~apu.fault
    /\ apu'  = a
    /\ ref'  = RefDo(r)
    /\ last' = Call(op, arg, 0)
    /\ ops'  = ops + 1
    /\ UNCHANGED <<pend, emu>>

WriteCtrl(channel, val) ==
    Access("write_ctrl", <<channel, val>>,
           Apu_write_ctrl(apu, channel, val), Apu_write_ctrl(ref, channel, val))

WriteSweep(channel, val) ==
    Access("write_sweep", <<channel, val>>,
           Apu_write_sweep(apu, channel, val), Apu_write_sweep(ref, channel, val))

WriteTimerLo(channel, val) ==
    Access("write_timer_lo", <<channel, val>>,
           Apu_write_timer_lo(apu, channel, val), Apu_write_timer_lo(ref, channel, val))

WriteTimerHi(channel, val) ==
    Access("write_timer_hi", <<channel, val>>,
           Apu_write_timer_hi(apu, channel, val), Apu_write_timer_hi(ref, channel, val))

WriteLinearCounter(val) ==
    Access("write_linear_counter", <<val>>,
           Apu_write_linear_counter(apu, val), Apu_write_linear_counter(ref, val))

WriteLength(channel, val) ==
    Access("write_length", <<channel, val>>,
           Apu_write_length(apu, channel, val), Apu_write_length(ref, channel, val))

WriteDmcOutput(val) ==
    Access("write_dmc_output", <<val>>,
           Apu_write_dmc_output(apu, val), Apu_write_dmc_output(ref, val))

WriteDmcAddr(val) ==
    Access("write_dmc_addr", <<val>>,
           Apu_write_dmc_addr(apu, val), Apu_write_dmc_addr(ref, val))

WriteStatus(val) ==
    Access("write_status", <<val>>,
           Apu_write_status(apu, val), Apu_write_status(ref, val))

LoadDmcBuffer(val) ==
    /\ apu.dmc.bytes_remaining > 0
    /\ Access("load_dmc_buffer", <<val>>,
              Apu_load_dmc_buffer(apu, val), Apu_load_dmc_buffer(ref, val))

ReadStatus ==
    /\ ~apu.fault
    /\ \E r \in {Apu_read_status(apu)} :
          /\ apu'  = r.apu
          /\ last' = Call("read_status", <<>>, r.val)
    /\ ref'  = RefDo(Apu_read_status(ref).apu)
    /\ ops'  = ops + 1
    /\ UNCHANGED <<pend, emu>>

PeekStatus ==
    /\ ~apu.fault
    /\ last' = Call("peek_status", <<>>, Apu_peek_status(apu))
    /\ ops'  = ops + 1
    /\ UNCHANGED <<apu, ref, pend, emu>>

WriteFrameCounter(val) ==
    /\ ~apu.fault
    /\ apu'  = Apu_write_frame_counter(apu, val)
    /\ ref'  = RefDo(Apu_write_frame_counter(ref, val))
    /\ last' = Call("write_frame_counter", <<val>>, 0)
    /\ ops'  = ops + 1
    /\ UNCHANGED emu
    /\ pend' = IF apu'.fault THEN pend
               ELSE [ active     |-> TRUE,
                      at         |-> apu'.cpu_cycle,
                      delay      |-> apu'.frame_counter.write_delay,
                      val        |-> val,
                      shadow     |-> [apu'.frame_counter EXCEPT
                                        !.write_buffer = None],
                      applied_at |-> -1,
                      applied    |-> <<"Step4", 0, 0>> ]

SetRegion(region) ==
    /\ ~apu.fault
    /\ apu'  = Apu_set_region(apu, region)
    /\ ref'  = RefDo(Apu_set_region(ref, region))
    /\ last' = Call("set_region", <<region>>, 0)
    /\ ops'  = ops + 1
    /\ UNCHANGED emu
    /\ pend' = IF apu'.fault THEN pend
               ELSE [pend EXCEPT !.shadow = FrameCounter_set_region(@, region)]

Reset(kind) ==
    /\ ~apu.fault
    /\ apu'  = Apu_reset(apu, kind)
    /\ ref'  = RefDo(Apu_reset(ref, kind))
    /\ last' = Call("reset", <<kind>>, 0)
    /\ ops'  = ops + 1
    /\ UNCHANGED emu
    /\ pend' = NoPend

(***************************************************************************)
(* Spec: the frame counter over a whole frame, with $4017 writes, status   *)
(* reads, resets and region changes at the cycles around its clocks.       *)
(***************************************************************************)
FrameCounterVals == {0, 64, 128, 192}

Next ==
    \/ apu.cpu_cycle < MaxCpuCycle /\ IdleRun = 0 /\ ClockLazy
    \/ ClockLazyIdle
    \/ ops < MaxOps /\ \E val \in FrameCounterVals : WriteFrameCounter(val)
    \/ ops < MaxOps /\ ReadStatus
    \/ ops < MaxOps /\ \E region \in Regions : SetRegion(region)
    \/ ops < MaxOps /\ \E kind \in {"Soft", "Hard"} : Reset(kind)

Spec == Init /\ [][Next]_vars

(***************************************************************************)
(* SpecEq: schedules of register accesses over a whole frame, after the    *)
(* power-on reset.                                                         *)
(***************************************************************************)
NextEq ==
    \/ apu.cpu_cycle < MaxCpuCycle /\ IdleRun = 0 /\ ClockLazy
    \/ ClockLazyIdle
    \/ last.op = "new" /\ Reset("Hard")
    \/ ops < MaxEqOps /\ \E val \in FrameCounterVals : WriteFrameCounter(val)
    \/ ops < MaxEqOps /\ ReadStatus
    \/ ops < MaxEqOps /\ \E region \in Regions : SetRegion(region)
    \/ ops < MaxEqOps /\ WriteStatus(1)
    \/ ops < MaxEqOps /\ WriteTimerHi("Pulse1", 24)

SpecEq == Init /\ [][NextEq]_vars

(***************************************************************************)
(* SpecRegion: $4017 writes and region changes up to the first clock of    *)
(* the PAL sequence.                                                       *)
(***************************************************************************)
NextRegion ==
    \/ apu.cpu_cycle < MaxRegionCycle /\ IdleRun = 0 /\ ClockLazy
    \/ apu.cpu_cycle < MaxRegionCycle /\ ClockLazyIdle
    \/ ops < MaxRegionOps /\ \E val \in {0, 128} : WriteFrameCounter(val)
    \/ ops < MaxRegionOps /\ \E region \in Regions : SetRegion(region)

SpecRegion == Init /\ [][NextRegion]_vars

(***************************************************************************)
(* SpecRegs: every register handler, in the first cycles after             *)
(* construction.                                                           *)
(***************************************************************************)
NextRegs ==
    \/ apu.cpu_cycle < MaxRegCycle /\ ClockLazy
    \/ ops < MaxRegOps /\ WriteCtrl("Pulse1", 0)
    \/ ops < MaxRegOps /\ WriteSweep("Pulse1", 0)
    \/ ops < MaxRegOps /\ WriteTimerLo("Dmc", 128)
    \/ ops < MaxRegOps /\ \E channel \in {"Pulse1", "Triangle"} :
                              WriteTimerHi(channel, 24)
    \/ ops < MaxRegOps /\ WriteLinearCounter(0)
    \/ ops < MaxRegOps /\ \E channel \in {"Noise", "Dmc"} : WriteLength(channel, 24)
    \/ ops < MaxRegOps /\ WriteDmcOutput(0)
    \/ ops < MaxRegOps /\ WriteDmcAddr(0)
    \/ ops < MaxRegOps /\ \E val \in {1, 31} : WriteStatus(val)
    \/ ops < MaxRegOps /\ \E val \in {0, 128} : WriteFrameCounter(val)
    \/ ops < MaxRegOps /\ ReadStatus
    \/ ops < MaxRegOps /\ PeekStatus
    \/ ops < MaxRegOps /\ LoadDmcBuffer(0)

SpecRegs == Init /\ [][NextRegs]_vars

(***************************************************************************)
(* SpecIrq: a one-byte DMC sample with its IRQ enabled is played in the    *)
(* first cycles, and $4015 is read at the cycles around the frame          *)
(* counter's clocks.                                                       *)
(***************************************************************************)
NextIrq ==
    \/ /\ apu.cpu_cycle < MaxCpuCycle
       /\ IdleRun = 0
       /\ apu.dmc.bytes_remaining = 0 \/ apu.cpu_cycle < MaxRegCycle
       /\ ClockLazy
    \/ ClockLazyIdle
    \/ ops < MaxIrqOps /\ apu.cpu_cycle < MaxRegCycle /\ WriteLength("Dmc", 0)
    \/ ops < MaxIrqOps /\ apu.cpu_cycle < MaxRegCycle /\ WriteTimerLo("Dmc", 128)
    \/ ops < MaxIrqOps /\ apu.cpu_cycle < MaxRegCycle /\ WriteStatus(16)
    \/ ops < MaxIrqOps /\ LoadDmcBuffer(0)
    \/ ops < MaxIrqOps /\ ReadStatus

SpecIrq == Init /\ [][NextIrq]_vars

(***************************************************************************)
(* SpecSeq: the sequencer left alone for two periods of the longest        *)
(* sequence.  The region and the mode are chosen in the first cycles, then *)
(* only clock_lazy is called.                                              *)
(***************************************************************************)
IdleRunSeq ==
    LET n == IF ref.fault THEN IdleCycles(apu)
             ELSE Min(IdleCycles(apu), RefIdleCycles(ref))
    IN  Max(0, Min(n - MaxLead, MaxSeqCycle - apu.cpu_cycle))

\* IdleRunSeq calls of clock_lazy in a row.
ClockLazyIdleSeq ==
    /\ ~apu.fault
    /\ IdleRunSeq > 0
    /\ apu'  = Apu_clock_lazy_idle(apu, IdleRunSeq)
    /\ ref'  = RefDo(Apu_clock_every_idle(ref, IdleRunSeq))
    /\ last' = Clocked(IdleRunSeq)
    /\ UNCHANGED <<ops, pend, emu>>

NextSeq ==
    \/ apu.cpu_cycle < MaxSeqCycle /\ IdleRunSeq = 0 /\ ClockLazy
    \/ ClockLazyIdleSeq
    \/ /\ ops < MaxSeqOps
       /\ apu.cpu_cycle < MaxRegCycle
       /\ ~pend.active
       /\ \E val \in {0, 128} : WriteFrameCounter(val)
    \/ /\ ops < MaxSeqOps
       /\ apu.cpu_cycle < MaxRegCycle
       /\ \E region \in Regions : SetRegion(region)

SpecSeq == Init /\ [][NextSeq]_vars

(***************************************************************************)
(* SpecLevels: the first chunk of channel_outputs holds any levels of the  *)
(* two pulse channels, or any levels of triangle, noise and DMC, or every  *)
(* channel at its highest level; the Apu is clocked and flushed, which     *)
(* mixes the chunk.                                                        *)
(***************************************************************************)
Levels4 == 0..15
DmcLevels == 0..127

LevelChunks ==
    {[Silence EXCEPT ![1] = p1, ![2] = p2] : p1 \in Levels4, p2 \in Levels4}
    \cup {[Silence EXCEPT ![3] = t, ![4] = n, ![5] = d] :
             t \in Levels4, n \in Levels4, d \in DmcLevels}
    \cup {<<15, 15, 15, 15, 127, 0>>}

WithChunk(a, outputs) == [a EXCEPT !.channel_outputs[1] = outputs]

InitLevels ==
    /\ \E outputs \in LevelChunks :
          /\ apu = WithChunk(Apu_new, outputs)
          /\ ref = WithChunk(Apu_new, outputs)
    /\ last = NoCall
    /\ ops  = 0
    /\ pend = NoPend
    /\ emu  = State_new(TRUE)

ClockFlush ==
    /\ ~apu.fault
    /\ apu'  = Apu_clock_flush(apu)
    /\ ref'  = RefDo(Apu_clock_flush(ref))
    /\ last' = Call("clock_flush", <<>>, 0)
    /\ ops'  = ops + 1
    /\ UNCHANGED <<pend, emu>>

NextLevels ==
    \/ apu.cpu_cycle < MaxChunks /\ ClockLazy
    \/ ops < MaxLevelOps /\ last.op = "clock_lazy" /\ ClockFlush

SpecLevels == InitLevels /\ [][NextLevels]_vars

(***************************************************************************)
(* SpecMix: two Apus take the same calls and differ only in the samples    *)
(* given to add_output; the mapper channel is enabled and disabled, and    *)
(* the first cycles of the batch are clocked and flushed.                  *)
(***************************************************************************)
MixLevels == {Silence, <<1, 2, 3, 4, 5, 0>>, <<15, 15, 15, 15, 127, 0>>}
MapperSamples == {0, 3, 7}

InitMix ==
    /\ \E outputs \in MixLevels :
          /\ apu = WithChunk(Apu_new, outputs)
          /\ ref = WithChunk(Apu_new, outputs)
    /\ last = NoCall
    /\ ops  = 0
    /\ pend = NoPend
    /\ emu  = State_new(TRUE)

\* add_output, with `other` given to the second Apu.
AddOutput(output, other) ==
    /\ ~apu.fault
    /\ apu'  = Apu_add_output(apu, output)
    /\ ref'  = Apu_add_output(ref, other)
    /\ last' = Call("add_output", <<output, other>>, 0)
    /\ ops'  = ops + 1
    /\ UNCHANGED <<pend, emu>>

SetChannelEnabled(channel, enabled) ==
    Access("set_channel_enabled", <<channel, enabled>>,
           Apu_set_channel_enabled(apu, channel, enabled),
           Apu_set_channel_enabled(ref, channel, enabled))

\* One call of clock_lazy on both Apus.
ClockLazyBoth ==
    /\ ~apu.fault
    /\ \E req \in DmcRequests(apu) :
          /\ apu' = Apu_clock_lazy(apu, req)
          /\ ref' = Apu_clock_lazy(ref, req)
    /\ last' = Clocked(1)
    /\ UNCHANGED <<ops, pend, emu>>

NextMix ==
    \/ apu.cpu_cycle < MaxChunks /\ ClockLazyBoth
    \/ /\ ops < MaxMixOps
       /\ apu.master_cycle < MaxChunks
       /\ \E output \in MapperSamples, other \in MapperSamples :
             AddOutput(output, other)
    \/ ops < MaxMixOps /\ \E enabled \in BOOLEAN : SetChannelEnabled("Mapper", enabled)
    \/ ops < MaxMixOps /\ last.op = "clock_lazy" /\ ClockFlush

SpecMix == InitMix /\ [][NextMix]_vars

(***************************************************************************)
(* SpecChannels: the five handlers that take a channel, called with every  *)
(* channel in the first cycles.                                            *)
(***************************************************************************)
NextChannels ==
    \/ apu.cpu_cycle < MaxRegCycle /\ ClockLazy
    \/ ops < MaxChannelOps /\ \E channel \in Channels : WriteCtrl(channel, 24)
    \/ ops < MaxChannelOps /\ \E channel \in Channels : WriteSweep(channel, 24)
    \/ ops < MaxChannelOps /\ \E channel \in Channels : WriteTimerLo(channel, 24)
    \/ ops < MaxChannelOps /\ \E channel \in Channels : WriteTimerHi(channel, 24)
    \/ ops < MaxChannelOps /\ \E channel \in Channels : WriteLength(channel, 24)
    \/ ops < MaxChannelOps /\ WriteStatus(31)

SpecChannels == Init /\ [][NextChannels]_vars

(***************************************************************************)
(* SpecSave: two Apus with the same persistent fields and any transient    *)
(* fields take the same calls, are saved and loaded back.                  *)
(***************************************************************************)
TransientStates ==
    [ channel_outputs : {[i \in 1..MaxChunks |-> Silence],
                         [i \in 1..MaxChunks |-> <<15, 15, 15, 15, 127, 7>>]},
      output_cycle    : {0, 7},
      audio_samples   : {<<>>, <<1, 2>>} ]

WithTransient(a, t) ==
    [a EXCEPT !.channel_outputs = t.channel_outputs,
              !.output_cycle    = t.output_cycle,
              !.audio_samples   = t.audio_samples]

\* The counter of a new Apu, and the counter 39 samples later: the next
\* sample given to the filter chain is followed by an output sample.
SampleCounters ==
    {region_clock_rate("Ntsc"), region_clock_rate("Ntsc") - 39 * SAMPLE_RATE}

InitSave ==
    /\ \E t \in TransientStates, u \in TransientStates, c \in SampleCounters :
          /\ apu = WithTransient([Apu_new EXCEPT !.sample_counter = c], t)
          /\ ref = WithTransient([Apu_new EXCEPT !.sample_counter = c], u)
    /\ last = NoCall
    /\ ops  = 0
    /\ pend = NoPend
    /\ emu  = State_new(TRUE)

\* bincode::serialize of the two Apus.
Save ==
    /\ ~apu.fault
    /\ last' = Call("save", <<Apu_serialize(apu), Apu_serialize(ref)>>, 0)
    /\ ops'  = ops + 1
    /\ UNCHANGED <<apu, ref, pend, emu>>

\* bincode::deserialize of the two blobs just saved.
Load ==
    /\ ~apu.fault
    /\ last.op = "save"
    /\ apu'  = Apu_deserialize(apu, last.arg[1])
    /\ ref'  = Apu_deserialize(ref, last.arg[2])
    /\ last' = Call("load", last.arg, 0)
    /\ ops'  = ops + 1
    /\ UNCHANGED <<pend, emu>>

NextSave ==
    \/ apu.cpu_cycle < MaxChunks /\ last.op # "save" /\ ClockLazyBoth
    \/ ops < MaxSaveOps /\ last.op \notin {"save", "load"} /\ WriteFrameCounter(128)
    \/ ops < MaxSaveOps /\ last.op \notin {"save", "load"} /\ SetChannelEnabled("Mapper", TRUE)
    \/ ops < MaxSaveOps /\ last.op = "clock_lazy" /\ ClockFlush
    \/ ops < MaxSaveOps /\ last.op = "load" /\ AddOutput(3, 7)
    \/ ops < MaxSaveOps /\ last.op \notin {"save", "load"} /\ Save
    \/ Load

SpecSave == InitSave /\ [][NextSave]_vars

(***************************************************************************)
(* SpecPair: $4017 writes that arrive while an earlier one is pending, in  *)
(* the first cycles after the power-on reset.  After the first write a     *)
(* write is made only while write_buffer holds a value.                    *)
(***************************************************************************)
WriteFirst ==
    /\ ops = 0
    /\ \E val \in FrameCounterVals : WriteFrameCounter(val)

WriteAgain ==
    /\ ops > 0
    /\ ops < MaxPairOps
    /\ apu.frame_counter.write_buffer # None
    /\ \E val \in FrameCounterVals : WriteFrameCounter(val)

NextPair ==
    \/ apu.cpu_cycle < MaxPairCycle /\ ClockLazy
    \/ WriteFirst
    \/ WriteAgain

SpecPair == Init /\ [][NextPair]_vars

(***************************************************************************)
(* SpecEnvelope: the envelope of a pulse channel, from any of its states,  *)
(* under clock (the quarter-frame clock) and write_ctrl ($4000).           *)
(***************************************************************************)
\* write_ctrl with enabled taken from bit 4 as it is.
Envelope_write_ctrl_enabled_by_bit4(e, val) ==
    [e EXCEPT !.loops           = (val \div 32) % 2 = 1,
              !.enabled         = (val \div 16) % 2 = 1,
              !.constant_volume = val % 16]

\* Envelope::write_ctrl(val).
Envelope_write_ctrl(e, val) ==
    [e EXCEPT !.loops           = (val \div 32) % 2 = 1,
              !.enabled         = (val \div 16) % 2 = 0,
              !.constant_volume = val % 16]

\* A clock that restarts the volume at 15 whether loops is set or not.
Envelope_clock_always_looping(e) ==
    IF e.reset
    THEN [e EXCEPT !.reset = FALSE, !.volume = 15, !.counter = e.constant_volume]
    ELSE IF e.counter > 0
    THEN [e EXCEPT !.counter = @ - 1]
    ELSE [e EXCEPT !.counter = e.constant_volume,
                   !.volume  = IF @ > 0 THEN @ - 1 ELSE 15]

\* A clock whose expired divider is reloaded one short.
Envelope_clock_short_reload(e) ==
    IF e.reset
    THEN [e EXCEPT !.reset = FALSE, !.volume = 15, !.counter = e.constant_volume]
    ELSE IF e.counter > 0
    THEN [e EXCEPT !.counter = @ - 1]
    ELSE [e EXCEPT !.counter = IF e.constant_volume > 0
                               THEN e.constant_volume - 1 ELSE 0,
                   !.volume  = IF @ > 0 THEN @ - 1
                               ELSE IF e.loops THEN 15 ELSE @]

\* <Envelope as Clock>::clock().
Envelope_clock(e) ==
    IF e.reset
    THEN [e EXCEPT !.reset = FALSE, !.volume = 15, !.counter = e.constant_volume]
    ELSE IF e.counter > 0
    THEN [e EXCEPT !.counter = @ - 1]
    ELSE [e EXCEPT !.counter = e.constant_volume,
                   !.volume  = IF @ > 0 THEN @ - 1
                               ELSE IF e.loops THEN 15 ELSE @]

\* The states of an envelope: volume, constant_volume and counter are u8
\* fields that hold 4-bit values.
Envelopes ==
    [ enabled : BOOLEAN, loops : BOOLEAN, reset : BOOLEAN,
      volume : 0..15, constant_volume : 0..15, counter : 0..15 ]

\* The values written to $4000.
EnvelopeCtrlVals == {0, 5, 16, 32, 63, 255}

\* The Apu with the envelope e in its first pulse channel.
WithEnvelope(a, e) ==
    [a EXCEPT !.pulse1 = [ length |-> a.pulse1.length, envelope |-> e ]]

InitEnvelope ==
    /\ \E e \in Envelopes : apu = WithEnvelope(Apu_new, e)
    /\ ref  = Apu_new
    /\ last = NoCall
    /\ ops  = 0
    /\ pend = NoPend
    /\ emu  = State_new(TRUE)

EnvelopeClock ==
    /\ apu'  = [apu EXCEPT !.pulse1.envelope = Envelope_clock(@)]
    /\ last' = Call("envelope_clock", <<>>, 1)
    /\ ops'  = ops + 1
    /\ UNCHANGED <<ref, pend, emu>>

EnvelopeWriteCtrl(val) ==
    /\ apu'  = [apu EXCEPT !.pulse1.envelope = Envelope_write_ctrl(@, val)]
    /\ last' = Call("envelope_write_ctrl", <<val>>, 0)
    /\ ops'  = ops + 1
    /\ UNCHANGED <<ref, pend, emu>>

NextEnvelope ==
    \/ ops < MaxEnvelopeOps /\ EnvelopeClock
    \/ ops < MaxEnvelopeOps /\ \E val \in EnvelopeCtrlVals : EnvelopeWriteCtrl(val)

SpecEnvelope == InitEnvelope /\ [][NextEnvelope]_vars

(***************************************************************************)
(* SpecDecay: an envelope with its reset flag set, $4000 written at most   *)
(* once before the first clock, then clocked with constant_volume fixed.   *)
(* ops counts the clocks.                                                  *)
(***************************************************************************)
InitDecay ==
    /\ \E e \in Envelopes :
          /\ e.reset
          /\ e.constant_volume = 0
          /\ apu = WithEnvelope(Apu_new, e)
    /\ ref  = Apu_new
    /\ last = NoCall
    /\ ops  = 0
    /\ pend = NoPend
    /\ emu  = State_new(TRUE)

\* The values written to $4000: V = 0, 5 and 15, loops clear and set.
DecayCtrlVals == {0, 5, 37, 47}

DecayWriteCtrl(val) ==
    /\ last.op = "new"
    /\ apu'  = [apu EXCEPT !.pulse1.envelope = Envelope_write_ctrl(@, val)]
    /\ last' = Call("envelope_write_ctrl", <<val>>, 0)
    /\ UNCHANGED <<ref, ops, pend, emu>>

NextDecay ==
    \/ \E val \in DecayCtrlVals : DecayWriteCtrl(val)
    \/ ops < MaxDecayClocks /\ EnvelopeClock

SpecDecay == InitDecay /\ [][NextDecay]_vars

(***************************************************************************)
(* SpecResample: a fresh Apu clocked and flushed, one cycle at a time or   *)
(* in batches of one sample period, over three sample periods; the buffer  *)
(* holds every cycle of the run.                                           *)
(***************************************************************************)
\* The numbers of buffered cycles at which clock_flush is called.
ResampleBatches == {1, 40}

InitResample ==
    /\ apu  = [Apu_new EXCEPT
                 !.channel_outputs = [i \in 1..MaxResampleCycles |-> Silence]]
    /\ ref  = apu
    /\ last = NoCall
    /\ ops  = 0
    /\ pend = NoPend
    /\ emu  = State_new(TRUE)

\* clock_flush, with the cycles buffered so far.
ResampleFlush ==
    /\ ~apu.fault
    /\ apu.master_cycle \in ResampleBatches
    /\ apu'  = Apu_clock_flush(apu)
    /\ ref'  = RefDo(Apu_clock_flush(ref))
    /\ last' = Call("clock_flush", <<apu.master_cycle>>, 0)
    /\ UNCHANGED <<ops, pend, emu>>

NextResample ==
    \/ apu.cpu_cycle < MaxResampleCycles /\ ClockLazy
    \/ ResampleFlush

SpecResample == InitResample /\ [][NextResample]_vars

(***************************************************************************)
(* SpecRewind: the calls of Rewind (push, pop, clear, set_enabled) on a    *)
(* Rewind created enabled, over two laps of the buffer.  Away from the     *)
(* ends of the buffer the pushes of a lap are taken in one step.           *)
(***************************************************************************)
\* The FRAMES_SIZE most recent of the snapshots in `live`.
MostRecent(live) ==
    IF Len(live) <= FRAMES_SIZE THEN live
    ELSE SubSeq(live, Len(live) - FRAMES_SIZE + 1, Len(live))

\* The number of coming stores that stay away from both ends of frames.
PushRun ==
    IF /\ emu.rewind.enabled
       /\ emu.rewind.interval_counter = 0
       /\ emu.rewind.index >= MaxRewindLead
       /\ emu.rewind.index < emu.rewind.frames.len - MaxRewindLead
    THEN Min(emu.rewind.frames.len - MaxRewindLead - emu.rewind.index,
             (MaxPushCalls - emu.calls) \div INTERVAL)
    ELSE 0

\* State after a call of push(cpu) that led to r.
Pushed(r, cpu) ==
    [emu EXCEPT
       !.rewind   = r.rewind,
       !.panicked = r.panic,
       !.calls    = IF emu.rewind.enabled THEN @ + 1 ELSE @,
       !.live     = IF r.rewind.count # emu.rewind.count
                    THEN MostRecent(Append(@, cpu)) ELSE @,
       !.phase    = IF @ = "storing" THEN @ ELSE "other"]

Push ==
    /\ ~emu.panicked
    /\ emu.calls < MaxPushCalls
    /\ PushRun = 0
    /\ emu'  = Pushed(Rewind_push(emu.rewind, emu.calls + 1), emu.calls + 1)
    /\ last' = Call("push", <<emu.calls + 1>>, 0)
    /\ UNCHANGED <<apu, ref, ops, pend>>

\* n stores in a row, by INTERVAL * n calls of push: the call numbered c
\* stores the snapshot c when c is a multiple of INTERVAL.
Rewind_push_run(rw, calls, n) ==
    [rw EXCEPT
       !.frames.some =
           [j \in DOMAIN @ \cup (rw.index .. rw.index + n - 1) |->
               IF j \in rw.index .. rw.index + n - 1
               THEN calls + INTERVAL * (j - rw.index + 1) ELSE @[j]],
       !.count = @ + n,
       !.index = @ + n]

PushMany ==
    /\ ~emu.panicked
    /\ PushRun > 0
    /\ emu' = [emu EXCEPT
                 !.rewind = Rewind_push_run(@, emu.calls, PushRun),
                 !.calls  = @ + INTERVAL * PushRun,
                 !.live   = MostRecent(@ \o [i \in 1..PushRun |->
                                               emu.calls + INTERVAL * i]),
                 !.phase  = IF @ = "storing" THEN @ ELSE "other"]
    /\ last' = Call("push", <<emu.calls + INTERVAL * PushRun>>, 0)
    /\ UNCHANGED <<apu, ref, ops, pend>>

\* State after a call of pop() that led to r.
Popped(r) ==
    [emu EXCEPT
       !.rewind   = r.rewind,
       !.panicked = r.panic,
       !.live     = IF emu.rewind.enabled /\ @ # <<>>
                    THEN SubSeq(@, 1, Len(@) - 1) ELSE @,
       !.phase    = IF @ \in {"storing", "popping"} THEN "popping" ELSE "other"]

Pop ==
    /\ ~emu.panicked
    /\ \E r \in {Rewind_pop(emu.rewind)} :
          /\ emu'  = Popped(r)
          /\ last' = Call("pop", <<>>, r.cpu)
    /\ ops' = ops + 1
    /\ UNCHANGED <<apu, ref, pend>>

Clear ==
    /\ ~emu.panicked
    /\ emu'  = [emu EXCEPT !.rewind = Rewind_clear(@),
                           !.live = <<>>, !.phase = "other"]
    /\ last' = Call("clear", <<>>, 0)
    /\ ops'  = ops + 1
    /\ UNCHANGED <<apu, ref, pend>>

SetEnabled(enabled) ==
    /\ ~emu.panicked
    /\ emu'  = [emu EXCEPT !.rewind = Rewind_set_enabled(@, enabled),
                           !.phase = "other"]
    /\ last' = Call("set_enabled", <<enabled>>, 0)
    /\ ops'  = ops + 1
    /\ UNCHANGED <<apu, ref, pend>>

NextRewind ==
    \/ Push
    \/ PushMany
    \/ ops < MaxRewindOps /\ Pop
    \/ ops < MaxRewindOps /\ Clear
    \/ ops < MaxRewindOps /\ \E enabled \in BOOLEAN : SetEnabled(enabled)

SpecRewind == Init /\ [][NextRewind]_vars

\* The emulation thread (emulation.rs), with a ROM loaded and the deck running,
\* neither paused nor occluded: clock_frame, the Rewinding event and the
\* RewindEnabled configuration event.  cpu is the number of the frame the
\* deck's Cpu is at and calls counts the frames clocked forward.
ClockFrame ==
    /\ ~emu.panicked
    /\ IF emu.rewinding
       THEN \E r \in {Rewind_pop(emu.rewind)} :
               /\ emu' = [emu EXCEPT
                            !.rewind    = r.rewind,
                            !.panicked  = r.panic,
                            !.cpu       = IF r.panic \/ r.cpu = None
                                          THEN @ ELSE r.cpu,
                            !.rewinding = IF ~r.panic /\ r.cpu = None
                                          THEN FALSE ELSE @]
               /\ last' = Call("clock_frame", <<TRUE>>, r.cpu)
       ELSE /\ emu.calls < MaxFrames
            /\ \E r \in {Rewind_push(emu.rewind, emu.cpu + 1)} :
                  emu' = [emu EXCEPT
                            !.rewind   = r.rewind,
                            !.panicked = r.panic,
                            !.cpu      = @ + 1,
                            !.calls    = @ + 1]
            /\ last' = Call("clock_frame", <<FALSE>>, 0)
    /\ UNCHANGED <<apu, ref, ops, pend>>

EventRewinding(rewind) ==
    /\ ~emu.panicked
    /\ emu'  = [emu EXCEPT
                  !.rewinding = IF emu.rewind.enabled THEN rewind ELSE @]
    /\ last' = Call("Rewinding", <<rewind>>, 0)
    /\ ops'  = ops + 1
    /\ UNCHANGED <<apu, ref, pend>>

ConfigRewindEnabled(enabled) ==
    /\ ~emu.panicked
    /\ emu'  = [emu EXCEPT !.rewind = Rewind_set_enabled(@, enabled)]
    /\ last' = Call("RewindEnabled", <<enabled>>, 0)
    /\ ops'  = ops + 1
    /\ UNCHANGED <<apu, ref, pend>>

NextRewinding ==
    \/ ClockFrame
    \/ ops < MaxEventOps /\ \E rewind \in BOOLEAN : EventRewinding(rewind)
    \/ ops < MaxEventOps /\ \E enabled \in BOOLEAN : ConfigRewindEnabled(enabled)

SpecRewinding == Init /\ [][NextRewinding]_vars

\* The emulation thread clocks frames for as long as it lives.
FairSpecRewinding == SpecRewinding /\ WF_vars(ClockFrame)

(***************************************************************************)
(* C1  Lazy clocking is equivalent to clocking every cycle: at every cycle *)
(* the frame IRQ flag is the one of the reference, and once caught up to   *)
(* master_cycle the lazily clocked Apu has delivered the same quarter- and *)
(* half-frame callbacks on the same cycles, has written the same channel   *)
(* outputs and holds the same frame counter and length counters.           *)
(***************************************************************************)
\* What a caught-up Apu shows of its clocking.
Observed(a) ==
    [ frame_counter |-> a.frame_counter,
      master_cycle  |-> a.master_cycle,
      cpu_cycle     |-> a.cpu_cycle,
      cycle         |-> a.cycle,
      lengths       |-> << a.pulse1.length.counter, a.pulse2.length.counter,
                           a.triangle.length.counter, a.noise.length.counter >>,
      quarters      |-> a.quarters,
      halves        |-> a.halves,
      last_clock_at |-> a.last_clock_at,
      out_sum       |-> a.out_sum,
      fault         |-> a.fault ]

C1_LazyEquivalence ==
    /\ apu.frame_counter.irq_pending = ref.frame_counter.irq_pending
    /\ Observed(CatchUp(apu)) = Observed(ref)

\* The lazy Apu is behind, and its catch-up delivers a clock that the
\* reference has delivered.
C1_Witness ==
    /\ apu.cycle < apu.master_cycle
    /\ ref.halves > 0
    /\ ref.out_sum > 0
    /\ C1_LazyEquivalence

(***************************************************************************)
(* C2  master_cycle >= cycle holds in every state, the states after reset  *)
(* included, so that master_cycle - cycle never underflows.                *)
(***************************************************************************)
C2_MasterCycleAhead == apu.master_cycle >= apu.cycle

(***************************************************************************)
(* C3  After any register write handler or read_status the Apu is caught   *)
(* up (cycle = master_cycle), and what the handler wrote is still as       *)
(* written: the catch-up ran before the mutation, not after it.            *)
(***************************************************************************)
Handlers ==
    { "write_ctrl", "write_sweep", "write_timer_lo", "write_timer_hi",
      "write_linear_counter", "write_length", "write_dmc_output",
      "write_dmc_addr", "write_status", "write_frame_counter", "read_status" }

C3_CatchUpBeforeAccess ==
    (last.op \in Handlers /\ ~apu.fault) =>
        /\ apu.cycle = apu.master_cycle
        /\ last.op = "write_frame_counter" =>
              /\ apu.frame_counter.write_buffer = last.arg[1]
              /\ apu.frame_counter.write_delay = WriteDelay(apu.master_cycle)
        /\ last.op = "read_status" => ~apu.frame_counter.irq_pending

\* A $4017 write made while the Apu was behind master_cycle.
C3_Witness ==
    /\ last.op = "write_frame_counter"
    /\ last.behind > 0
    /\ apu.cycle = apu.master_cycle
    /\ apu.frame_counter.write_buffer = last.arg[1]

(***************************************************************************)
(* C4  A $4017 write made at cycle w with the delay d takes effect exactly *)
(* d cycles later: until then the sequencer is the one that never saw the  *)
(* write, and at cycle w + d the mode is the written one with step and     *)
(* cycle at 0.                                                             *)
(***************************************************************************)
C4_WriteTakesEffectAfterDelay ==
    (pend.active /\ ~apu.fault) =>
        IF pend.applied_at = -1
        THEN /\ apu.cpu_cycle - pend.at < pend.delay
             /\ apu.frame_counter.write_buffer = pend.val
             /\ apu.frame_counter.mode  = pend.shadow.mode
             /\ apu.frame_counter.step  = pend.shadow.step
             /\ apu.frame_counter.cycle = pend.shadow.cycle
        ELSE /\ pend.applied_at - pend.at = pend.delay
             /\ pend.applied = << WrittenMode(pend.val), 0, 0 >>

(***************************************************************************)
(* C5  The delay of a $4017 write is 3 when cpu_cycle is even and 4 when   *)
(* it is odd, at any point of a run.                                       *)
(***************************************************************************)
C5_DelayFollowsCpuCycle ==
    (last.op = "write_frame_counter" /\ ~apu.fault) =>
        apu.frame_counter.write_delay = (IF apu.cpu_cycle % 2 = 0 THEN 3 ELSE 4)

(***************************************************************************)
(* C6  A clock_lazy call in which a pending $4017 write takes effect while *)
(* block_counter is 0 delivers, besides the clock of a step it crosses,    *)
(* exactly one half-frame clock when bit 7 of the value is set and no      *)
(* clock when it is clear.  The calls are those of a frame counter below   *)
(* the threshold of its step, which cross one threshold at most.           *)
(***************************************************************************)
\* The call crosses the threshold of the current step.
Crosses(fc) == fc.cycle + 1 >= Threshold(fc)

\* The clock the crossing delivers.
CrossingClock(fc) ==
    IF Crosses(fc) /\ fc.block_counter = 0 THEN FRAME_TYPE[fc.step + 1]
    ELSE "None"

\* The pending write takes effect in this step.
TakesEffect ==
    /\ apu.frame_counter.write_buffer # None
    /\ apu'.frame_counter.write_buffer = None
    /\ last'.op = "clock_lazy"
    /\ ~apu'.fault

C6_HalfClockOnStep5Write ==
    [][ (/\ TakesEffect
         /\ apu.frame_counter.block_counter = 0
         /\ apu.frame_counter.cycle < Threshold(apu.frame_counter)
         /\ CrossingClock(apu.frame_counter) = "None")
        => /\ apu'.quarters = apu.quarters
           /\ apu'.halves = apu.halves
                + (IF Bit(apu.frame_counter.write_buffer, 7) THEN 1 ELSE 0) ]_vars

\* A write of 0x80 has just taken effect and has delivered the first
\* half-frame clock of the run.
C6_Witness ==
    /\ pend.active
    /\ pend.val = 128
    /\ pend.applied_at = apu.cpu_cycle
    /\ last.op = "clock_lazy"
    /\ apu.halves = 1
    /\ apu.quarters = 0
    /\ apu.frame_counter.block_counter = 1

(***************************************************************************)
(* C7  irq_pending goes from false to true only in a clock that crosses    *)
(* the threshold of a step >= 3 in Step4 mode with inhibit_irq clear.      *)
(***************************************************************************)
C7_IrqOnlyAtStep4Crossing ==
    [][ (~apu.frame_counter.irq_pending /\ apu'.frame_counter.irq_pending)
        => /\ last'.op = "clock_lazy"
           /\ apu.frame_counter.mode = "Step4"
           /\ apu.frame_counter.step >= 3
           /\ ~apu.frame_counter.inhibit_irq
           /\ apu.frame_counter.cycle + (apu.master_cycle + 1 - apu.cycle)
                >= Threshold(apu.frame_counter) ]_vars

\* The clock that crossed the threshold of step 3 has raised the IRQ.
C7_Witness ==
    /\ last.op = "clock_lazy"
    /\ apu.frame_counter.irq_pending
    /\ apu.frame_counter.mode = "Step4"
    /\ apu.frame_counter.step = 4
    /\ apu.frame_counter.cycle = Threshold([apu.frame_counter EXCEPT !.step = 3])

(***************************************************************************)
(* C8  read_status clears the frame IRQ flag and returns bit 7 as the DMC  *)
(* IRQ flag it leaves; of two read_status calls on the same cycle the      *)
(* second returns the bit 7 of the first and bit 6 clear.                  *)
(***************************************************************************)
C8_ReadStatusAcksFrameIrqOnly ==
    (last.op = "read_status" /\ ~apu.fault) =>
        /\ ~apu.frame_counter.irq_pending
        /\ Bit(last.ret, 7) = apu.dmc.irq_pending
        /\ last.prev = "read_status" =>
              /\ Bit(last.ret, 7) = Bit(last.prev_ret, 7)
              /\ ~Bit(last.ret, 6)

\* Two reads on one cycle, the first of which returned both IRQ flags.
C8_Witness ==
    /\ last.op = "read_status"
    /\ last.prev = "read_status"
    /\ Bit(last.prev_ret, 6)
    /\ Bit(last.prev_ret, 7)
    /\ Bit(last.ret, 7)
    /\ ~Bit(last.ret, 6)

(***************************************************************************)
(* C9  In every state peek_status returns the value read_status would      *)
(* return there.                                                           *)
(***************************************************************************)
C9_PeekEqualsRead ==
    ~apu.fault => Apu_peek_status(apu) = Apu_read_status(apu).val

(***************************************************************************)
(* C10  A length load leaves the channel's length counter as it was and    *)
(* latches the value; the clock_lazy of the next cycle applies it, after   *)
(* the half-frame clock of that step if there is one, so that the counter  *)
(* is the loaded value.                                                    *)
(***************************************************************************)
\* The length counter of a channel.
Length(a, channel) ==
    IF channel = "Pulse1" THEN a.pulse1.length
    ELSE IF channel = "Pulse2" THEN a.pulse2.length
    ELSE IF channel = "Triangle" THEN a.triangle.length
    ELSE a.noise.length

\* The last call is a length load of a channel that is enabled.
LengthLoaded ==
    /\ \/ last.op = "write_timer_hi"
       \/ last.op = "write_length" /\ last.arg[1] = "Noise"
    /\ Length(apu, last.arg[1]).enabled

\* The step is a length load of an enabled channel.
LoadsLength ==
    /\ \/ last'.op = "write_timer_hi"
       \/ last'.op = "write_length" /\ last'.arg[1] = "Noise"
    /\ Length(apu', last'.arg[1]).enabled
    /\ ~apu'.fault

\* The step is a clock_lazy that catches up.
ClockCatchesUp ==
    /\ last'.op = "clock_lazy"
    /\ apu'.cycle = apu'.master_cycle
    /\ ~apu'.fault

C10_LengthReloadDeferred ==
    [][ /\ LoadsLength =>
            /\ Length(apu', last'.arg[1]).counter
                   = Length(CatchUp(apu), last'.arg[1]).counter
            /\ Length(apu', last'.arg[1]).reload_value
                   = LENGTH_TABLE[(last'.arg[2] \div 8) + 1]
        /\ (LengthLoaded /\ last'.op = "clock_lazy" /\ ~apu'.fault) =>
            /\ ClockCatchesUp
            /\ Length(apu', last.arg[1]).counter
                   = LENGTH_TABLE[(last.arg[2] \div 8) + 1]
        /\ \A channel \in {"Pulse1", "Pulse2", "Triangle", "Noise"} :
            (Length(apu, channel).reload_value > 0 /\ ClockCatchesUp) =>
                /\ Length(apu', channel).counter
                       = Length(apu, channel).reload_value
                /\ Length(apu', channel).reload_value = 0 ]_vars

\* The clock_lazy in which a $4017 write of 0x80 delivers its half-frame
\* clock has applied a length load to a counter that was 0.
C10_Witness ==
    /\ last.op = "clock_lazy"
    /\ pend.active
    /\ pend.val = 128
    /\ pend.applied_at = apu.cpu_cycle
    /\ apu.halves = 1
    /\ apu.pulse1.length.counter = LENGTH_TABLE[(24 \div 8) + 1]
    /\ apu.pulse1.length.reload_value = 0

(***************************************************************************)
(* C11  Left alone from step 0 and cycle 0 with no write pending, the      *)
(* sequencer delivers Quarter, Half, Quarter, Half at the thresholds of    *)
(* the steps 0, 1, 2 and 4 of its mode's table, nothing at the steps 3 and *)
(* 5, and starts again at step 0 and cycle 0 at the sixth threshold: at    *)
(* every cycle the numbers of quarter and half clocks delivered, the step  *)
(* and the cycle count are those of the elapsed cycles modulo the sixth    *)
(* threshold.  The sequence starts at cycle 0 of a new Apu, or at the      *)
(* cycle a $4017 write takes effect.                                       *)
(***************************************************************************)
SeqTable == apu.frame_counter.step_cycles[ModeIndex(apu.frame_counter.mode)]

SeqPeriod == SeqTable[6]

\* The cycle the running sequence started at.
SeqOrigin == IF pend.active THEN pend.applied_at ELSE 0

\* The half clock of a write of the five-step mode.
SeqWriteHalves ==
    IF pend.active /\ WrittenMode(pend.val) = "Step5" THEN 1 ELSE 0

\* The thresholds of the steps in S that are reached r cycles into a period.
SeqReached(S, r) == Cardinality({i \in S : SeqTable[i + 1] <= r})

SeqRunning == ~apu.fault /\ (pend.active => pend.applied_at # -1)

SeqAt(periods, r) ==
    /\ apu.quarters = 2 * periods + SeqReached({0, 2}, r)
    /\ apu.halves = SeqWriteHalves + 2 * periods + SeqReached({1, 4}, r)
    /\ apu.frame_counter.step = SeqReached(0..5, r)
    /\ CatchUp(apu).frame_counter.cycle = r
    /\ CatchUp(apu).quarters = apu.quarters
    /\ CatchUp(apu).halves = apu.halves

C11_SequenceOfClocks ==
    SeqRunning =>
        SeqAt((apu.cpu_cycle - SeqOrigin) \div SeqPeriod,
              (apu.cpu_cycle - SeqOrigin) % SeqPeriod)

\* The second period of a five-step sequence has delivered its first half clock.
C11_Witness ==
    /\ SeqRunning
    /\ apu.frame_counter.mode = "Step5"
    /\ apu.cpu_cycle - SeqOrigin = SeqPeriod + SeqTable[2]
    /\ apu.quarters = 3
    /\ apu.halves = 4
    /\ apu.frame_counter.step = 2

(***************************************************************************)
(* C12  A reset of the frame counter leaves the mode alone when Soft and   *)
(* sets Step4 when Hard; it sets step, cycle and block_counter to 0,       *)
(* clears irq_pending and inhibit_irq and latches a write of the mode's    *)
(* value ($00 for Step4, $80 for Step5) with delay 3.  Each clocked cycle  *)
(* then counts the delay down, and the third one restarts the sequence at  *)
(* step 0 and cycle 0 in that mode, with the half clock of a $80 write.    *)
(* A clock_lazy clocks the frame counter when master_cycle has reached the *)
(* Apu's cycle, which Apu::reset leaves as it was.                         *)
(***************************************************************************)
ModeValue(mode) == IF mode = "Step4" THEN 0 ELSE 128

\* The frame counter after reset(kind) of the frame counter `before`.
IsReset(before, fc, kind) ==
    /\ fc.mode = IF kind = "Hard" THEN "Step4" ELSE before.mode
    /\ fc.step = 0
    /\ fc.cycle = 0
    /\ fc.block_counter = 0
    /\ ~fc.irq_pending
    /\ ~fc.inhibit_irq
    /\ fc.write_buffer = ModeValue(fc.mode)
    /\ fc.write_delay = 3

\* The latched write is the one of a reset: a $4017 write sets pend.active.
ResetWritePending ==
    ~pend.active /\ apu.frame_counter.write_buffer # None

\* One clocked cycle from the frame counter `before` with the reset's write.
ResetCountdown(before, a) ==
    IF before.write_delay > 1
    THEN /\ a.frame_counter.write_buffer = before.write_buffer
         /\ a.frame_counter.write_delay = before.write_delay - 1
         /\ a.frame_counter.mode = before.mode
         /\ a.frame_counter.step = 0
    ELSE /\ a.frame_counter.write_buffer = None
         /\ a.frame_counter.mode = before.mode
         /\ a.frame_counter.step = 0
         /\ a.frame_counter.cycle = 0
         /\ a.halves - apu.halves = IF before.mode = "Step5" THEN 1 ELSE 0
         /\ a.quarters = apu.quarters

ResetThenClocks ==
    /\ (last'.op = "reset" /\ ops' = ops + 1) =>
           IsReset(apu.frame_counter, apu'.frame_counter, last'.arg[1])
    /\ ( /\ ResetWritePending
          /\ last'.op = "clock_lazy"
          /\ apu.master_cycle >= apu.cycle
          /\ ~apu'.fault ) =>
           ResetCountdown(apu.frame_counter, apu')

C12_ResetRestartsSequence == [][ResetThenClocks]_vars

\* Three cycles after a Soft reset in the five-step mode.
C12_Witness ==
    /\ ~apu.fault
    /\ ~pend.active
    /\ last.op = "clock_lazy"
    /\ apu.master_cycle = 3
    /\ apu.frame_counter.mode = "Step5"
    /\ apu.frame_counter.write_buffer = None
    /\ apu.frame_counter.step = 0
    /\ apu.frame_counter.cycle = 0
    /\ apu.halves >= 2

(***************************************************************************)
(* C13  In every reachable state clock_to(master_cycle) runs to completion *)
(* without an underflow and with the step index in range, and ends with    *)
(* cycle = master_cycle.                                                   *)
(***************************************************************************)
ClockToCompletes(a) ==
    /\ ~a.fault
    /\ a.cycle = a.master_cycle
    /\ a.frame_counter.step \in 0..5

C13_ClockToCompletes == ~apu.fault => ClockToCompletes(CatchUp(apu))

(***************************************************************************)
(* C14  In the byte returned by read_status and peek_status, the bits 0 to *)
(* 3 are set exactly when the length counter of pulse 1, pulse 2, triangle *)
(* and noise is above 0, bit 4 exactly when the DMC has bytes remaining,   *)
(* bit 6 exactly when the frame IRQ is pending, bit 7 exactly when the DMC *)
(* IRQ is pending, and bit 5 is never set.  The state read is the one      *)
(* after the catch-up for read_status.                                     *)
(***************************************************************************)
StatusBits(val, a) ==
    /\ val \in 0..255
    /\ Bit(val, 0) <=> a.pulse1.length.counter > 0
    /\ Bit(val, 1) <=> a.pulse2.length.counter > 0
    /\ Bit(val, 2) <=> a.triangle.length.counter > 0
    /\ Bit(val, 3) <=> a.noise.length.counter > 0
    /\ Bit(val, 4) <=> a.dmc.bytes_remaining > 0
    /\ ~Bit(val, 5)
    /\ Bit(val, 6) <=> a.frame_counter.irq_pending
    /\ Bit(val, 7) <=> a.dmc.irq_pending

StatusReturned ==
    /\ (last'.op = "read_status" /\ ops' = ops + 1 /\ ~apu'.fault) =>
           StatusBits(last'.ret, CatchUp(apu))
    /\ (last'.op = "peek_status" /\ ops' = ops + 1 /\ ~apu'.fault) =>
           StatusBits(last'.ret, apu)

ReadAfterPowerOnReset ==
    /\ ops = 2
    /\ apu.cpu_cycle = 0
    /\ last.op = "read_status"
    /\ last.prev = "reset"

C15_PowerOnStatus ==
    ReadAfterPowerOnReset => ~apu.fault /\ last.ret = 0

C15_Witness ==
    /\ ReadAfterPowerOnReset
    /\ last.ret = 0
    /\ apu.frame_counter.write_buffer = 0
    /\ apu.frame_counter.write_delay = 3
    /\ apu.cycle = 0

(***************************************************************************)
(* C16  For channel levels in their ranges (0..15 for the pulses, triangle *)
(* and noise, 0..127 for the DMC) process_outputs takes PULSE_TABLE at     *)
(* pulse1 + pulse2 and TND_TABLE at 3 * triangle + 2 * noise + dmc, and    *)
(* the two indices are within the tables: at most 30 and 202.              *)
(***************************************************************************)
MixedAt(outputs, sample) ==
    /\ sample.pulse_idx = outputs[1] + outputs[2]
    /\ sample.tnd_idx = 3 * outputs[3] + 2 * outputs[4] + outputs[5]
    /\ sample.pulse_idx \in 0..30
    /\ sample.tnd_idx \in 0..202
    /\ sample.pulse_idx < PULSE_TABLE_LEN
    /\ sample.tnd_idx < TND_TABLE_LEN

C16_TableIndicesInRange ==
    last.op = "clock_flush" =>
        /\ ~apu.fault
        /\ Len(apu.filter_in) >= 1
        /\ \A i \in 1..Len(apu.filter_in) :
              MixedAt(apu.channel_outputs[i], apu.filter_in[i])

\* Every channel at its highest level: the last entries of the two tables.
C16_Witness ==
    /\ last.op = "clock_flush"
    /\ ~apu.fault
    /\ apu.filter_in[1].pulse_idx = PULSE_TABLE_LEN - 1
    /\ apu.filter_in[1].tnd_idx = TND_TABLE_LEN - 1

(***************************************************************************)
(* C17  The sample given to add_output on a cycle lands in that cycle's    *)
(* chunk, and it is part of the cycle's mixed sample exactly when          *)
(* mapper_silenced is false at the mixing; while mapper_silenced is true,  *)
(* as after new, two Apus that differ only in the samples given to         *)
(* add_output feed the same samples to the filter chain.                   *)
(***************************************************************************)
MapperShare(a, i) ==
    a.filter_in[i].mapper_output =
        IF a.mapper_silenced THEN 0 ELSE a.channel_outputs[i][6]

C17_MapperMutedUnlessEnabled ==
    /\ (last.op = "add_output" /\ ~apu.fault) =>
           /\ apu.channel_outputs[apu.master_cycle + 1][6] = last.arg[1]
           /\ ref.channel_outputs[ref.master_cycle + 1][6] = last.arg[2]
    /\ (last.op = "clock_flush" /\ ~apu.fault) =>
           /\ \A i \in 1..Len(apu.filter_in) : MapperShare(apu, i)
           /\ \A i \in 1..Len(ref.filter_in) : MapperShare(ref, i)
           /\ apu.mapper_silenced => apu.filter_in = ref.filter_in

\* Two different mapper samples on the first cycle, mixed while silenced.
C17_Witness ==
    /\ last.op = "clock_flush"
    /\ ~apu.fault
    /\ apu.mapper_silenced
    /\ apu.channel_outputs[1][6] # ref.channel_outputs[1][6]
    /\ Len(apu.filter_in) >= 1
    /\ apu.filter_in = ref.filter_in

(***************************************************************************)
(* C18  A write to a channel that lacks the register panics and writes to  *)
(* no channel: the channels are left as the handler's catch-up leaves      *)
(* them.  write_ctrl takes Pulse1, Pulse2 and Noise, write_sweep Pulse1    *)
(* and Pulse2, write_timer_lo every channel but Mapper, write_timer_hi     *)
(* Pulse1, Pulse2 and Triangle, write_length Noise and Dmc; a write to a   *)
(* channel that has the register does not panic.                           *)
(***************************************************************************)
Accepted(op) ==
    CASE op = "write_ctrl"     -> {"Pulse1", "Pulse2", "Noise"}
      [] op = "write_sweep"    -> {"Pulse1", "Pulse2"}
      [] op = "write_timer_lo" -> {"Pulse1", "Pulse2", "Triangle", "Noise", "Dmc"}
      [] op = "write_timer_hi" -> {"Pulse1", "Pulse2", "Triangle"}
      [] op = "write_length"   -> {"Noise", "Dmc"}

ChannelWrites ==
    {"write_ctrl", "write_sweep", "write_timer_lo", "write_timer_hi", "write_length"}

ChannelState(a) == << a.pulse1, a.pulse2, a.triangle, a.noise, a.dmc >>

PanicsOnMissingRegister ==
    ( /\ last'.op \in ChannelWrites
      /\ ops' = ops + 1
      /\ ~CatchUp(apu).fault ) =>
        /\ apu'.fault <=> last'.arg[1] \notin Accepted(last'.op)
        /\ apu'.fault => ChannelState(apu') = ChannelState(CatchUp(apu))

C18_PanicsOnMissingRegister == [][PanicsOnMissingRegister]_vars

\* A sweep written to the triangle, one cycle after the status write that
\* the handler's catch-up takes in.
C18_Witness ==
    /\ last.op = "write_sweep"
    /\ last.arg[1] = "Triangle"
    /\ last.behind > 0
    /\ apu.cycle = apu.master_cycle
    /\ apu.fault

(***************************************************************************)
(* C19  The step-cycle table is distinct for each of the three regions:    *)
(* after set_region(r) the table installed in the frame counter is the one *)
(* of r and of no other region.                                            *)
(***************************************************************************)
C19_DistinctTablePerRegion ==
    (last.op = "set_region" /\ ~apu.fault) =>
        /\ apu.frame_counter.step_cycles = step_cycles(last.arg[1])
        /\ \A r \in Regions \ {last.arg[1]} :
              apu.frame_counter.step_cycles # step_cycles(r)

(***************************************************************************)
(* C19, as amended: there are two tables.  In every state the frame        *)
(* counter has the Apu's region and holds the PAL table when the region is *)
(* Pal and the NTSC table when it is Ntsc or Dendy, and the two tables     *)
(* differ in every threshold.                                              *)
(***************************************************************************)
C19_TableFollowsRegion ==
    ~apu.fault =>
        /\ apu.frame_counter.region = apu.region
        /\ apu.frame_counter.step_cycles =
              IF apu.region = "Pal" THEN STEP_CYCLES_PAL ELSE STEP_CYCLES_NTSC
        /\ \A mode \in 1..2, step \in 1..6 :
              STEP_CYCLES_PAL[mode][step] > STEP_CYCLES_NTSC[mode][step]

\* Dendy set after some cycles of Pal: the NTSC table is back.
C19_Witness ==
    /\ last.op = "set_region"
    /\ last.arg[1] = "Dendy"
    /\ ops = 2
    /\ ~apu.fault
    /\ apu.region = "Dendy"
    /\ apu.frame_counter.step_cycles = STEP_CYCLES_NTSC
    /\ apu.frame_counter.cycle > STEP_CYCLES_NTSC[1][1]

(***************************************************************************)
(* C20  Saving an Apu and loading it back preserves every persistent field *)
(* and leaves channel_outputs and audio_samples empty and output_cycle 0,  *)
(* whatever they held when saved; two Apus that differ only in these three *)
(* fields are saved as the same blob.                                      *)
(***************************************************************************)
Persistent(a) == [f \in SerializedFields |-> a[f]]

LoadedFrom(a, saved) ==
    /\ Persistent(a) = Persistent(saved)
    /\ a.channel_outputs = <<>>
    /\ a.output_cycle = 0
    /\ a.audio_samples = <<>>

SaveThenLoad ==
    /\ (last'.op = "save" /\ Persistent(apu) = Persistent(ref)) =>
           last'.arg[1] = last'.arg[2]
    /\ (last'.op = "load" /\ last.op = "save") =>
           LoadedFrom(apu', apu) /\ LoadedFrom(ref', ref)

ClockedInPreviousStep ==
    /\ apu.quarters + apu.halves > 0
    /\ apu.last_clock_at = apu.cpu_cycle

\* The clocks delivered by this step.
DeliveredQuarters == apu'.quarters - apu.quarters
DeliveredHalves   == apu'.halves - apu.halves

\* What the step delivers is what the crossing of its threshold delivers.
OnlyCrossingClock(ty) ==
    /\ DeliveredQuarters = (IF ty = "Quarter" THEN 1 ELSE 0)
    /\ DeliveredHalves   = (IF ty = "Half" THEN 1 ELSE 0)

C22_BlockWindow ==
    [][ (/\ TakesEffect
         /\ Bit(apu.frame_counter.write_buffer, 7)
         /\ apu.frame_counter.cycle < Threshold(apu.frame_counter))
        => IF CrossingClock(apu.frame_counter) # "None"
           THEN OnlyCrossingClock(CrossingClock(apu.frame_counter))
           ELSE IF ClockedInPreviousStep
           THEN DeliveredQuarters = 0 /\ DeliveredHalves = 0
           ELSE DeliveredQuarters = 0 /\ DeliveredHalves = 1 ]_vars

\* A write of bit 7 has just taken effect one step after a clock and has
\* delivered nothing: the only clock so far is the earlier one.
C22_Witness ==
    /\ pend.active
    /\ Bit(pend.val, 7)
    /\ pend.applied_at = apu.cpu_cycle
    /\ last.op = "clock_lazy"
    /\ ~apu.fault
    /\ apu.last_clock_at = apu.cpu_cycle - 1
    /\ apu.quarters + apu.halves = 1
    /\ apu.frame_counter.mode = "Step5"
    /\ apu.frame_counter.block_counter = 0

\* The same in the step of the clock itself.
C22_WitnessSameStep ==
    /\ pend.active
    /\ Bit(pend.val, 7)
    /\ pend.applied_at = apu.cpu_cycle
    /\ last.op = "clock_lazy"
    /\ ~apu.fault
    /\ apu.last_clock_at = apu.cpu_cycle
    /\ apu.quarters = 1
    /\ apu.halves = 0
    /\ apu.frame_counter.block_counter = 1

(***************************************************************************)
(* C23  clock_lazy flushes (catch-up, process_outputs, master_cycle and    *)
(* cycle back to 0) exactly in the calls that bring master_cycle to        *)
(* CYCLE_SIZE - 1: from creation, every (CYCLE_SIZE - 1)th call and no     *)
(* other.  C23_FlushEveryCycleSize is the statement with a period of       *)
(* CYCLE_SIZE calls.                                                       *)
(***************************************************************************)
\* The number of flushes the step has performed: a clock_lazy that does not
\* flush leaves master_cycle above 0.
FlushesPerformed ==
    IF apu'.master_cycle = 0 /\ apu'.cycle = 0 THEN 1 ELSE 0

\* The number of calls of the step that are a multiple of `period` calls
\* away from creation.
FlushesDue(period) ==
    (apu'.cpu_cycle \div period) - (apu.cpu_cycle \div period)

FlushesEvery(period) ==
    (last'.op = "clock_lazy" /\ ~apu'.fault)
        => FlushesPerformed = FlushesDue(period)

C24_InhibitExcludesIrq ==
    /\ apu.frame_counter.inhibit_irq => ~apu.frame_counter.irq_pending
    /\ (last.op = "write_frame_counter" /\ ~apu.fault)
          => apu.frame_counter.inhibit_irq = Bit(last.arg[1], 6)

\* The first access of the run is a $4017 write of bit 6 made after the
\* clocks of steps 3 and 4 of the 4-step sequence have raised the IRQ.
C24_Witness ==
    /\ last.op = "write_frame_counter"
    /\ Bit(last.arg[1], 6)
    /\ ~apu.fault
    /\ ops = 1
    /\ apu.frame_counter.mode = "Step4"
    /\ apu.frame_counter.step >= 4
    /\ apu.frame_counter.inhibit_irq
    /\ ~apu.frame_counter.irq_pending

(***************************************************************************)
(* C25  When a $4017 write arrives while an earlier one is pending, the    *)
(* sequencer stays the one that never saw a write until the delay of the   *)
(* last write (3 on an even cycle, 4 on an odd one) has passed since the   *)
(* last write; then the mode is the one of the last value, step and cycle  *)
(* restart once, and the half-frame clock of the last value, if any, is    *)
(* the only clock delivered.                                               *)
(***************************************************************************)
\* The last write replaced a pending one.
Replaced == ops >= 2 /\ pend.active /\ ~apu.fault

C25_LastWriteWins ==
    Replaced =>
        IF pend.applied_at = -1
        THEN /\ apu.cpu_cycle - pend.at < WriteDelay(pend.at)
             /\ apu.frame_counter.write_buffer = pend.val
             /\ apu.frame_counter.mode  = pend.shadow.mode
             /\ apu.frame_counter.step  = pend.shadow.step
             /\ apu.frame_counter.cycle = pend.shadow.cycle
             /\ apu.halves = 0
             /\ apu.quarters = 0
        ELSE /\ pend.applied_at - pend.at = WriteDelay(pend.at)
             /\ pend.applied = << WrittenMode(pend.val), 0, 0 >>
             /\ apu.frame_counter.write_buffer = None
             /\ apu.frame_counter.mode = WrittenMode(pend.val)
             /\ apu.frame_counter.step = 0
             /\ apu.frame_counter.cycle + (apu.master_cycle - apu.cycle)
                   = apu.cpu_cycle - pend.applied_at
             /\ apu.halves = (IF Bit(pend.val, 7) THEN 1 ELSE 0)
             /\ apu.quarters = 0

\* The second write of a pair, made on an odd cycle, has just taken effect
\* in 5-step mode with its half-frame clock.
C25_Witness ==
    /\ ops = 2
    /\ pend.active
    /\ pend.at % 2 = 1
    /\ pend.applied_at = apu.cpu_cycle
    /\ last.op = "clock_lazy"
    /\ ~apu.fault
    /\ apu.frame_counter.mode = "Step5"
    /\ apu.halves = 1

(***************************************************************************)
(* C26  While a $4017 value is pending write_delay is within 1..4, and     *)
(* every clock_lazy that clocks the frame counter with a value pending     *)
(* either applies the value or leaves it pending with a smaller delay, so  *)
(* that the decrement never goes below 0 and the value is applied within   *)
(* 4 calls of clock_to_with.  A call that finds delay 1 applies the value. *)
(***************************************************************************)
\* write_delay is within its range in the frame counter fc.
DelayInRange(fc) ==
    fc.write_buffer # None => (1 <= fc.write_delay /\ fc.write_delay <= 4)

\* The step is a clock_lazy in which clock_to_with is called with a value
\* pending.
ClocksPending ==
    /\ apu.frame_counter.write_buffer # None
    /\ apu.master_cycle >= apu.cycle
    /\ last'.op = "clock_lazy"
    /\ ~apu'.fault

C26_PendingWriteApplied ==
    [][ /\ DelayInRange(apu'.frame_counter)
        /\ ClocksPending =>
             IF apu.frame_counter.write_delay = 1
             THEN apu'.frame_counter.write_buffer = None
             ELSE \/ apu'.frame_counter.write_buffer = None
                  \/ /\ apu'.frame_counter.write_buffer = apu.frame_counter.write_buffer
                     /\ apu'.frame_counter.write_delay < apu.frame_counter.write_delay
      ]_vars

\* A write made with the delay 4 has just been applied by the fourth clock
\* after it.
C26_Witness ==
    /\ pend.active
    /\ pend.delay = 4
    /\ pend.applied_at = apu.cpu_cycle
    /\ pend.applied_at = pend.at + 4
    /\ last.op = "clock_lazy"
    /\ ~apu.fault
    /\ apu.frame_counter.write_buffer = None
    /\ apu.frame_counter.write_delay = 0

(***************************************************************************)
(* C27  In every state the frame counter's step is within 0..5 and its     *)
(* cycle is strictly below the threshold of the current step.              *)
(***************************************************************************)
C27_CycleBelowThreshold ==
    ~apu.fault =>
        /\ apu.frame_counter.step \in 0..5
        /\ apu.frame_counter.cycle < Threshold(apu.frame_counter)

(***************************************************************************)
(* C28  A catch-up request (should_clock) made by a register write is left *)
(* in place by every register access made before the next clock_lazy.      *)
(***************************************************************************)
C28_RequestStaysPending ==
    [][ (apu.should_clock /\ last'.op \in Handlers /\ ~apu'.fault)
        => apu'.should_clock ]_vars

(***************************************************************************)
(* C29  Envelope::clock: with reset set it clears reset, sets volume to 15 *)
(* and reloads counter from constant_volume; otherwise with counter > 0 it *)
(* only decrements counter; otherwise it reloads counter and decrements    *)
(* volume when volume > 0, sets it to 15 when volume is 0 and loops is     *)
(* set, and leaves it at 0 when loops is clear.  Nothing else changes.     *)
(***************************************************************************)
Envelope == apu.pulse1.envelope

\* The envelope after the step, field by field.
EnvelopeBecomes(enabled, loops, reset, volume, constant_volume, counter) ==
    /\ apu'.pulse1.envelope.enabled = enabled
    /\ apu'.pulse1.envelope.loops = loops
    /\ apu'.pulse1.envelope.reset = reset
    /\ apu'.pulse1.envelope.volume = volume
    /\ apu'.pulse1.envelope.constant_volume = constant_volume
    /\ apu'.pulse1.envelope.counter = counter

C29_EnvelopeClock ==
    [][ last'.op = "envelope_clock" =>
          /\ last'.ret = 1
          /\ Envelope.reset =>
               EnvelopeBecomes(Envelope.enabled, Envelope.loops, FALSE, 15,
                               Envelope.constant_volume, Envelope.constant_volume)
          /\ (~Envelope.reset /\ Envelope.counter > 0) =>
               EnvelopeBecomes(Envelope.enabled, Envelope.loops, FALSE,
                               Envelope.volume, Envelope.constant_volume,
                               Envelope.counter - 1)
          /\ (~Envelope.reset /\ Envelope.counter = 0 /\ Envelope.volume > 0) =>
               EnvelopeBecomes(Envelope.enabled, Envelope.loops, FALSE,
                               Envelope.volume - 1, Envelope.constant_volume,
                               Envelope.constant_volume)
          /\ (~Envelope.reset /\ Envelope.counter = 0 /\ Envelope.volume = 0) =>
               EnvelopeBecomes(Envelope.enabled, Envelope.loops, FALSE,
                               IF Envelope.loops THEN 15 ELSE 0,
                               Envelope.constant_volume, Envelope.constant_volume)
      ]_vars

\* Two clocks have taken a looping envelope from volume 1 through 0 back to
\* 15: with constant_volume 0 the divider expires at every clock.
C29_Witness ==
    /\ last.op = "envelope_clock"
    /\ last.prev = "envelope_clock"
    /\ Envelope.loops
    /\ ~Envelope.reset
    /\ Envelope.constant_volume = 0
    /\ Envelope.counter = 0
    /\ Envelope.volume = 15

(***************************************************************************)
(* C30  Envelope::write_ctrl(val) sets loops to bit 5 of val, enabled to   *)
(* the inverse of bit 4 and constant_volume to val & 0x0F, and leaves      *)
(* volume, counter and reset as they are.                                  *)
(***************************************************************************)
C30_EnvelopeWriteCtrl ==
    [][ last'.op = "envelope_write_ctrl" =>
          /\ apu'.pulse1.envelope.loops = Bit(last'.arg[1], 5)
          /\ apu'.pulse1.envelope.enabled = ~Bit(last'.arg[1], 4)
          /\ apu'.pulse1.envelope.constant_volume = last'.arg[1] % 16
          /\ apu'.pulse1.envelope.volume = Envelope.volume
          /\ apu'.pulse1.envelope.counter = Envelope.counter
          /\ apu'.pulse1.envelope.reset = Envelope.reset
      ]_vars

\* $4000 written with 0x3F on an envelope about to restart: loops set,
\* disabled (constant volume 15), the decay state and reset untouched.
C30_Witness ==
    /\ last.op = "envelope_write_ctrl"
    /\ last.arg = <<63>>
    /\ ops = 1
    /\ Envelope.loops
    /\ ~Envelope.enabled
    /\ Envelope.constant_volume = 15
    /\ Envelope.volume = 7
    /\ Envelope.counter = 3
    /\ Envelope.reset

(***************************************************************************)
(* C31  volume and counter stay within 0..15, and with constant_volume     *)
(* fixed at V the n-th clock after the one that consumes the reset flag    *)
(* leaves the divider at V - n mod (V+1) and the volume at 15 minus the    *)
(* number of whole periods of V+1 clocks: 0 after 15*(V+1) clocks, then 0  *)
(* for ever with loops clear, and 15 again V+1 clocks later, and so on     *)
(* every 16 periods, with loops set.                                       *)
(***************************************************************************)
\* The whole periods of the divider among the clocks after the restart.
DecayPeriods == (ops - 1) \div (Envelope.constant_volume + 1)

C31_EnvelopeDecay ==
    /\ Envelope.volume \in 0..15
    /\ Envelope.counter \in 0..15
    /\ ops >= 1 =>
         /\ ~Envelope.reset
         /\ Envelope.counter = Envelope.constant_volume
                                 - ((ops - 1) % (Envelope.constant_volume + 1))
         /\ Envelope.volume =
              IF Envelope.loops THEN 15 - (DecayPeriods % 16)
              ELSE IF DecayPeriods <= 15 THEN 15 - DecayPeriods ELSE 0

\* With V = 5 and loops set the volume is back at 15, 16 * 6 clocks after
\* the restart.
C31_Witness ==
    /\ last.op = "envelope_clock"
    /\ Envelope.loops
    /\ Envelope.constant_volume = 5
    /\ ops = 1 + 16 * 6
    /\ Envelope.volume = 15

\* With V = 5 and loops clear the volume has stayed at 0.
C31_WitnessSilent ==
    /\ last.op = "envelope_clock"
    /\ ~Envelope.loops
    /\ Envelope.constant_volume = 5
    /\ ops = 1 + 16 * 6
    /\ Envelope.volume = 0

(***************************************************************************)
(* C32  With the sample period P of a fresh Apu, in exact arithmetic       *)
(* (sample_counter and P in units of 1/SAMPLE_RATE): after the N cycles    *)
(* process_outputs has consumed, floor((N+1)/P) samples have been emitted  *)
(* and 1 < sample_counter <= P + 1; a call emits at most one sample per    *)
(* cycle it consumes.                                                      *)
(***************************************************************************)
\* The cycles process_outputs has consumed in the Apu a.
Consumed(a) == a.cpu_cycle - a.master_cycle

\* The samples emitted so far.
Emitted(a) == Len(a.audio_samples)

ResampledExactly(a) ==
    /\ Emitted(a) = ((Consumed(a) + 1) * SAMPLE_RATE) \div a.sample_period
    /\ Consumed(a) > 0 =>
         /\ a.sample_counter > SAMPLE_RATE
         /\ a.sample_counter <= a.sample_period + SAMPLE_RATE

Held == {emu.rewind.frames.some[j] : j \in DOMAIN emu.rewind.frames.some}

\* The snapshots of the stack of the most recent ones.
Recent == {emu.live[i] : i \in 1..Len(emu.live)}

C33_BufferHoldsMostRecent ==
    (emu.phase = "storing" /\ ~emu.panicked) =>
        /\ Len(emu.live) = Min(emu.calls \div INTERVAL, FRAMES_SIZE)
        /\ Held = Recent
        /\ emu.rewind.count = Len(emu.live)
        /\ emu.rewind.count <= FRAMES_SIZE

(***************************************************************************)
(* C34  After k snapshots have been stored on an enabled Rewind, 1 <= k <= *)
(* FRAMES_SIZE, the pops that follow return them last in, first out: each  *)
(* pop returns the most recent snapshot not yet returned, and the pop      *)
(* after the k-th returns None.                                            *)
(***************************************************************************)
\* What a last-in first-out pop returns.
Top(live) == IF live = <<>> THEN None ELSE live[Len(live)]

C34_LastInFirstOut ==
    [][ (/\ last'.op = "pop"
         /\ emu.phase \in {"storing", "popping"}
         /\ emu.calls \div INTERVAL >= 1
         /\ emu.calls \div INTERVAL <= FRAMES_SIZE)
        => /\ ~emu'.panicked
           /\ last'.ret = Top(emu.live) ]_vars

(***************************************************************************)
(* C35  Whatever the calls of push, pop, clear and set_enabled, no call    *)
(* panics (no decrement of index below 0, no access past the end of        *)
(* frames) and index stays within the length of frames.                    *)
(***************************************************************************)
C35_IndexInBounds ==
    /\ ~emu.panicked
    /\ emu.rewind.index >= 0
    /\ emu.rewind.index <= emu.rewind.frames.len

\* The same for a Rewind that is never cleared: frames keeps its length.
C35_IndexInBoundsUncleared ==
    emu.rewind.frames.len = FRAMES_SIZE => C35_IndexInBounds

\* C36: while rewinding is set, a clock_frame pops exactly one snapshot and
\* loads it, clocking no new frame, or, when pop returns None, clears
\* rewinding and leaves the Cpu alone; the thread survives the call.
C36_RewindingFrame ==
    [][ (emu.rewinding /\ last'.op = "clock_frame")
        => /\ ~emu'.panicked
           /\ emu'.calls = emu.calls
           /\ IF last'.ret = None
              THEN ~emu'.rewinding /\ emu'.cpu = emu.cpu
              ELSE /\ emu'.rewinding
                   /\ emu'.cpu = last'.ret
                   /\ emu'.rewind.count = emu.rewind.count - 1 ]_vars

\* C36, its second half: rewinding always ends, after finitely many frames.
C36_RewindingEnds == emu.rewinding ~> ~emu.rewinding

\* The cycles a call of clock_to_with may be handed from the state the frame
\* counter is in: a few, and what takes it to its step threshold and past it.
CallCycles(fc) ==
    LET threshold == fc.step_cycles[ModeIndex(fc.mode)][fc.step + 1]
        to_step   == IF threshold > fc.cycle THEN threshold - fc.cycle ELSE 1
    IN  (1 .. MaxLead) \cup {to_step, to_step + 1}

\* C37: a call of clock_to_with hands on_clock at most one frame type, never
\* a step clock together with the Half of a $4017 write taking effect, and
\* block_counter is 0 or 1 when the call returns.
C37_OnClockAtMostOnce ==
    ~apu.fault =>
        /\ apu.frame_counter.block_counter \in {0, 1}
        /\ \A n \in CallCycles(apu.frame_counter) :
              LET r == FrameCounter_clock_to_with(apu.frame_counter, n)
              IN  /\ Len(r.clocks) <= 1
                  /\ r.fc.block_counter \in {0, 1}

\* A $4017 write selecting Step5 takes effect in the call that crosses a
\* clocking step: the step clocks and the write's Half is withheld.
C37_Witness ==
    /\ ~apu.fault
    /\ last.op = "clock_lazy"
    /\ apu.frame_counter.write_buffer # None
    /\ WrittenMode(apu.frame_counter.write_buffer) = "Step5"
    /\ apu.frame_counter.write_delay = 1
    /\ \E n \in CallCycles(apu.frame_counter) :
          /\ clock_step(apu.frame_counter, n).clocks # <<>>
          /\ Len(FrameCounter_clock_to_with(apu.frame_counter, n).clocks) = 1

\* The index add_output writes at, counted from 0, in the Apu a.
OutputIndex(a) ==
    a.master_cycle * MAX_CHANNEL_COUNT + (ChannelIndex("Mapper") - 1)

\* C38: whenever clock_lazy has returned, and until its next call,
\* master_cycle is at most CYCLE_SIZE - 2, so the index add_output writes at
\* lies inside the MAX_CHANNEL_COUNT * CYCLE_SIZE entries of channel_outputs.
C38_MasterCycleInBuffer ==
    ~apu.fault =>
        /\ apu.master_cycle >= 0
        /\ apu.master_cycle <= CYCLE_SIZE - 2
        /\ OutputIndex(apu) < MAX_CHANNEL_COUNT * CYCLE_SIZE

\* clock_lazy returns with master_cycle at CYCLE_SIZE - 2, in a batch that
\* follows a flush.
C38_Witness ==
    /\ ~apu.fault
    /\ last.op = "clock_lazy"
    /\ apu.master_cycle = CYCLE_SIZE - 2
    /\ apu.cpu_cycle > CYCLE_SIZE

====
